---- MODULE Spec2Model ----
(***************************************************************************)
(* A model of the json-data crate: the byte Reader (parser.rs), the string *)
(* codec over a WTF-8 buffer (string.rs), the number codec (number.rs),    *)
(* the array and object grammars (array.rs, object.rs), the value          *)
(* dispatcher and the serializer (lib.rs).                                 *)
(*                                                                         *)
(* Bytes are integers 0..255, a byte slice is a sequence of bytes.  A      *)
(* Reader is the slice that remains to be read.  Every read_* operator     *)
(* returns a record [kind, val, err, byte, rest]: kind is "Ok", "Err",     *)
(* "Panic" (an unwrap, assert or checked arithmetic that failed) or        *)
(* "Abort" (the recursion ran off the call stack), val the value read,     *)
(* err/byte the Error case and the byte it carries (-1 when it carries     *)
(* none), rest the Reader after the call.                                  *)
(***************************************************************************)
EXTENDS Integers, Sequences, FiniteSets, TLC

VARIABLES bytes, value, units, members, result, op, pieces

vars == <<bytes, value, units, members, result, op, pieces>>

(***************************************************************************)
(* Sequences of bytes.                                                     *)
(***************************************************************************)
Min(a, b) == IF a < b THEN a ELSE b

Drop(s, n) == SubSeq(s, n + 1, Len(s))

Take(s, n) == SubSeq(s, 1, n)

RECURSIVE Pow(_, _)
Pow(b, e) == IF e = 0 THEN 1 ELSE b * Pow(b, e - 1)

\* Lexicographic comparison of two sequences of integers, as the derived Ord
\* of Vec<u8> compares them: -1 (Less), 0 (Equal), 1 (Greater).
RECURSIVE SeqCmp(_, _)
SeqCmp(a, b) ==
    IF a = <<>> THEN (IF b = <<>> THEN 0 ELSE -1)
    ELSE IF b = <<>> THEN 1
    ELSE IF Head(a) < Head(b) THEN -1
    ELSE IF Head(a) > Head(b) THEN 1
    ELSE SeqCmp(Tail(a), Tail(b))

(***************************************************************************)
(* UTF-8, as std::str::from_utf8 validates it and str::chars decodes it.   *)
(***************************************************************************)
IsCont(b) == b >= 128 /\ b <= 191

\* The length of the well-formed UTF-8 sequence that starts bs, 0 when bs
\* starts with none (overlong forms, surrogates and values above U+10FFFF
\* are not well formed).
Utf8CharLen(bs) ==
    IF bs = <<>> THEN 0
    ELSE LET b1 == bs[1] IN
         IF b1 <= 127 THEN 1
         ELSE IF b1 >= 194 /\ b1 <= 223
              THEN (IF Len(bs) >= 2 /\ IsCont(bs[2]) THEN 2 ELSE 0)
         ELSE IF b1 >= 224 /\ b1 <= 239
              THEN (IF /\ Len(bs) >= 3
                       /\ IsCont(bs[2])
                       /\ IsCont(bs[3])
                       /\ (b1 = 224 => bs[2] >= 160)
                       /\ (b1 = 237 => bs[2] <= 159)
                    THEN 3 ELSE 0)
         ELSE IF b1 >= 240 /\ b1 <= 244
              THEN (IF /\ Len(bs) >= 4
                       /\ IsCont(bs[2])
                       /\ IsCont(bs[3])
                       /\ IsCont(bs[4])
                       /\ (b1 = 240 => bs[2] >= 144)
                       /\ (b1 = 244 => bs[2] <= 143)
                    THEN 4 ELSE 0)
         ELSE 0

RECURSIVE IsUtf8(_)
IsUtf8(bs) ==
    IF bs = <<>> THEN TRUE
    ELSE LET n == Utf8CharLen(bs) IN
         IF n = 0 THEN FALSE ELSE IsUtf8(Drop(bs, n))

\* The code point of a 1 to 4 byte sequence in the (generalized) UTF-8 layout.
DecodeSeq(bs) ==
    IF Len(bs) = 1 THEN bs[1]
    ELSE IF Len(bs) = 2 THEN (bs[1] % 32) * 64 + (bs[2] % 64)
    ELSE IF Len(bs) = 3
         THEN (bs[1] % 16) * 4096 + (bs[2] % 64) * 64 + (bs[3] % 64)
    ELSE (bs[1] % 8) * 262144 + (bs[2] % 64) * 4096
         + (bs[3] % 64) * 64 + (bs[4] % 64)

\* str::chars of a valid UTF-8 slice.
RECURSIVE Utf8Chars(_)
Utf8Chars(bs) ==
    IF bs = <<>> THEN <<>>
    ELSE LET n == Utf8CharLen(bs) IN
         <<DecodeSeq(Take(bs, n))>> \o Utf8Chars(Drop(bs, n))

\* The generalized UTF-8 encoding of a code point 0..0x10FFFF; a surrogate
\* takes three bytes (ED A0..BF xx), which is what WTF-8 adds to UTF-8.
EncodeCodePoint(cp) ==
    IF cp < 128 THEN <<cp>>
    ELSE IF cp < 2048 THEN <<192 + (cp \div 64), 128 + (cp % 64)>>
    ELSE IF cp < 65536
         THEN <<224 + (cp \div 4096), 128 + ((cp \div 64) % 64), 128 + (cp % 64)>>
    ELSE <<240 + (cp \div 262144), 128 + ((cp \div 4096) % 64),
           128 + ((cp \div 64) % 64), 128 + (cp % 64)>>

(***************************************************************************)
(* Wtf8Buf of the wtf8 crate, the `inner` of a JsonString: a byte vector   *)
(* in WTF-8, in which a lead surrogate is never followed by a trail one.   *)
(***************************************************************************)
IsLead(cp) == cp >= 55296 /\ cp <= 56319

IsTrail(cp) == cp >= 56320 /\ cp <= 57343

IsSurrogate(cp) == cp >= 55296 /\ cp <= 57343

decode_surrogate_pair(lead, trail) ==
    65536 + (lead - 55296) * 1024 + (trail - 56320)

\* Wtf8::final_lead_surrogate: the lead surrogate the buffer ends with, -1
\* when it ends with none.
final_lead_surrogate(buf) ==
    LET n == Len(buf) IN
    IF n >= 3 /\ buf[n - 2] = 237 /\ buf[n - 1] >= 160 /\ buf[n - 1] <= 175
    THEN 55296 + (buf[n - 1] % 32) * 64 + (buf[n] % 64)
    ELSE -1

\* Wtf8Buf::push_char
push_char(buf, c) == buf \o EncodeCodePoint(c)

\* push without the merge of a trail surrogate into the lead before it.
push_NoMerge(buf, cp) == buf \o EncodeCodePoint(cp)

\* Wtf8Buf::push: a trail surrogate pushed after a final lead surrogate
\* replaces it by the supplementary code point of the pair.
push(buf, cp) ==
    IF IsTrail(cp) /\ final_lead_surrogate(buf) # -1
    THEN push_char(Take(buf, Len(buf) - 3),
                   decode_surrogate_pair(final_lead_surrogate(buf), cp))
    ELSE buf \o EncodeCodePoint(cp)

\* The width of the WTF-8 sequence a lead byte starts.
Wtf8Width(b) == IF b < 128 THEN 1 ELSE IF b < 224 THEN 2 ELSE IF b < 240 THEN 3 ELSE 4

\* Wtf8::code_points
RECURSIVE code_points(_)
code_points(buf) ==
    IF buf = <<>> THEN <<>>
    ELSE LET n == Wtf8Width(buf[1]) IN
         <<DecodeSeq(Take(buf, n))>> \o code_points(Drop(buf, n))

\* Wtf8Buf::from_ill_formed_utf16: char::decode_utf16 pairs a lead with the
\* trail that follows it; a paired scalar is pushed with push_char, a
\* surrogate left alone is appended as it is.
RECURSIVE from_ill_formed_utf16_from(_, _)
from_ill_formed_utf16_from(buf, v) ==
    IF v = <<>> THEN buf
    ELSE IF IsLead(v[1]) /\ Len(v) >= 2 /\ IsTrail(v[2])
         THEN from_ill_formed_utf16_from(
                  push_char(buf, decode_surrogate_pair(v[1], v[2])), Drop(v, 2))
    ELSE from_ill_formed_utf16_from(buf \o EncodeCodePoint(v[1]), Tail(v))

from_ill_formed_utf16(v) == from_ill_formed_utf16_from(<<>>, v)

\* Wtf8::to_ill_formed_utf16: the 16-bit code units of the buffer.
RECURSIVE UnitsOf(_)
UnitsOf(cps) ==
    IF cps = <<>> THEN <<>>
    ELSE (IF Head(cps) >= 65536
          THEN <<55296 + ((Head(cps) - 65536) \div 1024),
                 56320 + ((Head(cps) - 65536) % 1024)>>
          ELSE <<Head(cps)>>) \o UnitsOf(Tail(cps))

to_ill_formed_utf16(buf) == UnitsOf(code_points(buf))

\* next_surrogate with the test of the second byte narrowed to lead surrogates.
RECURSIVE next_surrogate_LeadOnly(_, _)
next_surrogate_LeadOnly(buf, pos) ==
    IF pos >= Len(buf) THEN -1
    ELSE IF buf[pos + 1] = 237
         THEN (IF pos + 3 <= Len(buf) /\ buf[pos + 2] >= 160 /\ buf[pos + 2] <= 175 THEN pos
               ELSE next_surrogate_LeadOnly(buf, pos + 3))
    ELSE next_surrogate_LeadOnly(buf, pos + Wtf8Width(buf[pos + 1]))

\* Wtf8::next_surrogate: the offset, from pos on, of the first surrogate of
\* the buffer (a sequence ED A0..BF xx), -1 for None.
RECURSIVE next_surrogate(_, _)
next_surrogate(buf, pos) ==
    IF pos >= Len(buf) THEN -1
    ELSE IF buf[pos + 1] = 237
         THEN (IF pos + 3 <= Len(buf) /\ buf[pos + 2] >= 160 THEN pos
               ELSE next_surrogate(buf, pos + 3))
    ELSE next_surrogate(buf, pos + Wtf8Width(buf[pos + 1]))

(***************************************************************************)
(* Results.                                                                *)
(***************************************************************************)
\* An f64 is modelled by its sign and the shortest decimal that denotes it:
\* mant * 10^exp with mant not a multiple of 10 (mant = 0, exp = 0 for the two
\* zeros), or by its class when it is an infinity or a NaN.
NumZero == [neg |-> FALSE, mant |-> 0, exp |-> 0, cls |-> "finite"]

Blank == [t |-> "Null", b |-> FALSE, n |-> NumZero, s |-> <<>>, a |-> <<>>, o |-> <<>>]

VNull == Blank

VBool(x) == [Blank EXCEPT !.t = "Bool", !.b = x]

VNumber(x) == [Blank EXCEPT !.t = "Number", !.n = x]

VString(x) == [Blank EXCEPT !.t = "String", !.s = x]

VArray(x) == [Blank EXCEPT !.t = "Array", !.a = x]

VObject(x) == [Blank EXCEPT !.t = "Object", !.o = x]

Ok(v, rest) == [kind |-> "Ok", val |-> v, err |-> "", byte |-> -1, rest |-> rest]

Err(e, b) == [kind |-> "Err", val |-> Blank, err |-> e, byte |-> b, rest |-> <<>>]

Panic(where) == [kind |-> "Panic", val |-> Blank, err |-> where, byte |-> -1, rest |-> <<>>]

NoResult == [kind |-> "None", val |-> Blank, err |-> "", byte |-> -1, rest |-> <<>>]

(***************************************************************************)
(* Reader (parser.rs).                                                     *)
(***************************************************************************)
IsWhitespace(b) == b \in {9, 10, 13, 32}

\* Reader::skip_whitespace: the Reader after the run of tab, LF, CR, space.
RECURSIVE skip_whitespace(_)
skip_whitespace(r) ==
    IF r # <<>> /\ IsWhitespace(Head(r)) THEN skip_whitespace(Tail(r)) ELSE r

\* Reader::read_char: the shortest prefix of 1..=min(4, remaining) bytes that
\* from_utf8 accepts; val.s holds the scalar value read.
RECURSIVE read_char_from(_, _)

\* read_char_from with the loop cut to its first round: one byte is tried.
read_char_from_OneByteOnly(r, n) ==
    IF n > Min(Len(r), 4) THEN Err("InvalidUtf8Char", -1)
    ELSE IF IsUtf8(Take(r, n))
         THEN Ok(VString(Utf8Chars(Take(r, n))), Drop(r, n))
    ELSE Err("InvalidUtf8Char", -1)

read_char_from(r, n) ==
    IF n > Min(Len(r), 4) THEN Err("InvalidUtf8Char", -1)
    ELSE IF IsUtf8(Take(r, n))
         THEN LET chars == Utf8Chars(Take(r, n)) IN
              IF chars = <<>> THEN Panic("read_char: chars.next().unwrap()")
              ELSE IF Len(chars) # 1 THEN Panic("read_char: assert_eq!(chars.next(), None)")
              ELSE Ok(VString(<<chars[1]>>), Drop(r, n))
    ELSE read_char_from(r, n + 1)

read_char(r) ==
    IF Len(r) = 0 THEN Err("UnexpectedEof", -1) ELSE read_char_from(r, 1)

\* Reader::read_byte
read_byte(r) ==
    IF r = <<>> THEN Err("UnexpectedEof", -1) ELSE Ok(VString(<<Head(r)>>), Tail(r))

\* read_bytes with the Reader left where it was.
read_bytes_NoAdvance(r, n) ==
    IF Len(r) < n THEN Err("UnexpectedEof", -1) ELSE Ok(VString(Take(r, n)), r)

\* Reader::read_bytes::<N>
read_bytes(r, n) ==
    IF Len(r) < n THEN Err("UnexpectedEof", -1) ELSE Ok(VString(Take(r, n)), Drop(r, n))

(***************************************************************************)
(* String codec (string.rs).                                               *)
(***************************************************************************)
\* parse_hex_byte: the value of a hex digit, -1 for Err(InvalidHexChar).
parse_hex_byte(byte) ==
    IF byte >= 48 /\ byte <= 57 THEN byte - 48
    ELSE IF byte >= 97 /\ byte <= 102 THEN byte - 97 + 10
    ELSE IF byte >= 65 /\ byte <= 70 THEN byte - 65 + 10
    ELSE -1

\* parse_hex_escape: r *= 16; r += digit over the four bytes, in u16.
RECURSIVE parse_hex_escape_from(_, _)
parse_hex_escape_from(bs, r) ==
    IF bs = <<>> THEN Ok(VString(<<r>>), <<>>)
    ELSE IF r * 16 > 65535 THEN Panic("parse_hex_escape: r *= 16 overflows u16")
    ELSE IF parse_hex_byte(Head(bs)) = -1 THEN Err("InvalidHexChar", Head(bs))
    ELSE IF r * 16 + parse_hex_byte(Head(bs)) > 65535
         THEN Panic("parse_hex_escape: r += overflows u16")
    ELSE parse_hex_escape_from(Tail(bs), r * 16 + parse_hex_byte(Head(bs)))

parse_hex_escape(bs) == parse_hex_escape_from(bs, 0)

\* The code unit of a one-character escape, -1 when the character is none.
EscapeUnit(b) ==
    CASE b = 34 -> 34
      [] b = 92 -> 92
      [] b = 47 -> 47
      [] b = 98 -> 8
      [] b = 102 -> 12
      [] b = 110 -> 10
      [] b = 114 -> 13
      [] b = 116 -> 9
      [] OTHER -> -1

\* The loop of read_string: r is the Reader, inner the buffer built so far.
RECURSIVE read_string_loop(_, _)
read_string_loop(r, inner) ==
    IF r = <<>> THEN Err("UnexpectedEof", -1)
    ELSE IF Head(r) = 92
         THEN LET r1 == Tail(r) IN
              IF r1 = <<>> THEN Err("UnexpectedEof", -1)
              ELSE IF Head(r1) = 117
                   THEN LET hex == read_bytes(Tail(r1), 4) IN
                        IF hex.kind # "Ok" THEN hex
                        ELSE LET v == parse_hex_escape(hex.val.s) IN
                             IF v.kind # "Ok" THEN v
                             ELSE read_string_loop(hex.rest, push(inner, v.val.s[1]))
              ELSE IF EscapeUnit(Head(r1)) = -1 THEN Err("UnexpectedEscape", Head(r1))
              ELSE read_string_loop(Tail(r1), push(inner, EscapeUnit(Head(r1))))
    ELSE IF Head(r) = 34 THEN Ok(VString(inner), Tail(r))
    ELSE IF Head(r) < 32 THEN Err("InvalidControlCharacter", Head(r))
    ELSE LET c == read_char(r) IN
         IF c.kind # "Ok" THEN c
         ELSE read_string_loop(c.rest, push_char(inner, c.val.s[1]))

\* read_string
read_string(r) ==
    IF r = <<>> THEN Err("UnexpectedEof", -1)
    ELSE IF Head(r) # 34 THEN Err("ExpectedDoubleQuote", Head(r))
    ELSE read_string_loop(Tail(r), <<>>)

HexDigit(d) == IF d < 10 THEN 48 + d ELSE 97 + (d - 10)

\* "\\u{:04x}": backslash, u, and at least four lowercase hex digits.
RECURSIVE HexDigits(_)
HexDigits(v) == IF v < 16 THEN <<HexDigit(v)>> ELSE HexDigits(v \div 16) \o <<HexDigit(v % 16)>>

RECURSIVE PadLeft(_, _, _)
PadLeft(s, n, b) == IF Len(s) >= n THEN s ELSE PadLeft(<<b>> \o s, n, b)

HexEscape(v) == <<92, 117>> \o PadLeft(HexDigits(v), 4, 48)

\* DisplayCodePoint without the arm for the backslash.
DisplayCodePoint_NoBackslashArm(c) ==
    IF IsSurrogate(c) THEN HexEscape(c)
    ELSE CASE c = 34 -> <<92, 34>>
           [] c = 47 -> <<92, 47>>
           [] c = 8 -> <<92, 98>>
           [] c = 12 -> <<92, 102>>
           [] c = 10 -> <<92, 110>>
           [] c = 13 -> <<92, 114>>
           [] c = 9 -> <<92, 116>>
           [] OTHER -> IF c < 32 THEN HexEscape(c) ELSE EncodeCodePoint(c)

\* DisplayCodePoint with U+007F taken for a control to hex-escape.
DisplayCodePoint_DelEscaped(c) ==
    IF IsSurrogate(c) THEN HexEscape(c)
    ELSE CASE c = 34 -> <<92, 34>>
           [] c = 92 -> <<92, 92>>
           [] c = 47 -> <<92, 47>>
           [] c = 8 -> <<92, 98>>
           [] c = 12 -> <<92, 102>>
           [] c = 10 -> <<92, 110>>
           [] c = 13 -> <<92, 114>>
           [] c = 9 -> <<92, 116>>
           [] OTHER -> IF c < 32 \/ c = 127 THEN HexEscape(c) ELSE EncodeCodePoint(c)

\* The match of Display for JsonString on one code point.
DisplayCodePoint(c) ==
    IF IsSurrogate(c) THEN HexEscape(c)
    ELSE CASE c = 34 -> <<92, 34>>
           [] c = 92 -> <<92, 92>>
           [] c = 47 -> <<92, 47>>
           [] c = 8 -> <<92, 98>>
           [] c = 12 -> <<92, 102>>
           [] c = 10 -> <<92, 110>>
           [] c = 13 -> <<92, 114>>
           [] c = 9 -> <<92, 116>>
           [] OTHER -> IF c < 32 THEN HexEscape(c) ELSE EncodeCodePoint(c)

RECURSIVE DisplayCodePoints(_)
DisplayCodePoints(cps) ==
    IF cps = <<>> THEN <<>>
    ELSE DisplayCodePoint(Head(cps)) \o DisplayCodePoints(Tail(cps))

\* impl Display for JsonString: the bytes of to_string().
DisplayJsonString(inner) == <<34>> \o DisplayCodePoints(code_points(inner)) \o <<34>>

(***************************************************************************)
(* Number codec (number.rs).                                               *)
(***************************************************************************)
IsDigit(b) == b >= 48 /\ b <= 57

\* skip_digits: the Reader after the run of ASCII digits (found_digit is
\* whether the Reader moved).
RECURSIVE skip_digits(_)
skip_digits(r) == IF r # <<>> /\ IsDigit(Head(r)) THEN skip_digits(Tail(r)) ELSE r

\* skip_exponent with the test for at least one digit left out.
skip_exponent_NoDigitNeeded(r) ==
    IF r # <<>> /\ Head(r) \in {101, 69}
    THEN LET r1 == Tail(r)
             r2 == IF r1 # <<>> /\ Head(r1) \in {43, 45} THEN Tail(r1) ELSE r1
         IN Ok(Blank, skip_digits(r2))
    ELSE Ok(Blank, r)

\* The exponent part of skip_number.
skip_exponent(r) ==
    IF r # <<>> /\ Head(r) \in {101, 69}
    THEN LET r1 == Tail(r)
             r2 == IF r1 # <<>> /\ Head(r1) \in {43, 45} THEN Tail(r1) ELSE r1
             r3 == skip_digits(r2)
         IN IF r3 = r2
            THEN (IF r3 = <<>> THEN Err("UnexpectedEof", -1) ELSE Err("InvalidDigit", Head(r3)))
            ELSE Ok(Blank, r3)
    ELSE Ok(Blank, r)

\* The fraction part of skip_number, followed by the exponent part.
skip_fraction(r) ==
    IF r # <<>> /\ Head(r) = 46
    THEN LET r1 == Tail(r)
             r2 == skip_digits(r1)
         IN IF r2 = r1
            THEN (IF r2 = <<>> THEN Err("UnexpectedEof", -1) ELSE Err("InvalidDigit", Head(r2)))
            ELSE skip_exponent(r2)
    ELSE skip_exponent(r)

\* skip_number with a leading 0 scanned like any other first digit.
skip_number_ZeroLikeAnyDigit(r) ==
    IF r = <<>> THEN Err("UnexpectedEof", -1)
    ELSE LET r1 == IF Head(r) = 45 THEN Tail(r) ELSE r IN
         IF r1 = <<>> THEN Err("UnexpectedEof", -1)
         ELSE IF IsDigit(Head(r1)) THEN skip_fraction(skip_digits(Tail(r1)))
         ELSE Err("InvalidDigit", Head(r1))

\* skip_number: the lexical scan of one number literal.
skip_number(r) ==
    IF r = <<>> THEN Err("UnexpectedEof", -1)
    ELSE LET r1 == IF Head(r) = 45 THEN Tail(r) ELSE r IN
         IF r1 = <<>> THEN Err("UnexpectedEof", -1)
         ELSE IF Head(r1) = 48 THEN skip_fraction(Tail(r1))
         ELSE IF Head(r1) >= 49 /\ Head(r1) <= 57 THEN skip_fraction(skip_digits(Tail(r1)))
         ELSE Err("InvalidDigit", Head(r1))

\* Reader::parse_slice: the bytes f consumed, from the two slice pointers;
\* the length end - start is converted to usize with try_into().unwrap().
parse_slice(r, res) ==
    IF res.kind # "Ok" THEN res
    ELSE IF Len(r) - Len(res.rest) < 0 THEN Panic("parse_slice: offset_from(..).try_into().unwrap()")
    ELSE Ok(VString(Take(r, Len(r) - Len(res.rest))), res.rest)

RECURSIVE DigitsToNat(_, _)
DigitsToNat(ds, acc) ==
    IF ds = <<>> THEN acc ELSE DigitsToNat(Tail(ds), acc * 10 + (Head(ds) - 48))

RECURSIVE NumDigits(_)
NumDigits(m) == IF m < 10 THEN 1 ELSE 1 + NumDigits(m \div 10)

\* The number of zeros a run of digits ends with (0 for a run of zeros alone,
\* which denotes 0 whatever its exponent).
RECURSIVE TrailingZeros(_)
TrailingZeros(ds) ==
    IF ds = <<>> \/ ds[Len(ds)] # 48 THEN 0
    ELSE IF \A i \in 1..Len(ds) : ds[i] = 48 THEN 0
    ELSE 1 + TrailingZeros(Take(ds, Len(ds) - 1))

\* A run of digits without the zeros it ends with.
StripZeros(ds) == Take(ds, Len(ds) - TrailingZeros(ds))

\* The decimal mant * 10^exp without the trailing zeros of mant.
RECURSIVE Normalize(_, _)
Normalize(mant, exp) ==
    IF mant = 0 THEN <<0, 0>>
    ELSE IF mant % 10 = 0 THEN Normalize(mant \div 10, exp + 1)
    ELSE <<mant, exp>>

\* The f64 nearest to the decimal mant * 10^exp (mant of at most 9 digits, not
\* a multiple of 10).  With d.ddd x 10^adj the scientific form of the decimal:
\* above 1.7976931348623158e308 the result is an infinity, below
\* 2.4703282292062328e-324 a zero, up to 7.4109846876186982e-324 the least
\* subnormal (5e-324), else the decimal itself.  Between 1e-323 and the least
\* normal 2.2250738585072014e-308 the doubles are sparser than the decimals of
\* 9 digits; the model keeps the decimal there.
RoundToF64(neg, mant, exp) ==
    LET nd == NumDigits(mant)
        adj == exp + nd - 1
        lead9 == mant * Pow(10, 9 - nd)
    IN IF mant = 0 THEN [neg |-> neg, mant |-> 0, exp |-> 0, cls |-> "finite"]
       ELSE IF adj > 308 \/ (adj = 308 /\ lead9 >= 179769314)
            THEN [neg |-> neg, mant |-> 0, exp |-> 0, cls |-> "inf"]
       ELSE IF adj < -324 \/ (adj = -324 /\ lead9 <= 247032822)
            THEN [neg |-> neg, mant |-> 0, exp |-> 0, cls |-> "finite"]
       ELSE IF adj = -324 /\ lead9 <= 741098468
            THEN [neg |-> neg, mant |-> 5, exp |-> -324, cls |-> "finite"]
       ELSE IF adj = -324
            THEN [neg |-> neg, mant |-> 1, exp |-> -323, cls |-> "finite"]
       ELSE [neg |-> neg, mant |-> mant, exp |-> exp, cls |-> "finite"]

ToLower(b) == IF b >= 65 /\ b <= 90 THEN b + 32 ELSE b

\* <f64 as FromStr>::from_str.  Its grammar is wider than JSON's:
\*   [+-] (inf | infinity | nan | (D+ | D+ . D* | D* . D+) [(e|E) [+-] D+])
\* kind is "Err" (ParseFloatError) for every other string.  The operators
\* below are its stages, in the order it scans.

\* The decimal norm = <<mant, exp>> rounded to the nearest f64.
F64Round(neg, norm) == Ok(VNumber(RoundToF64(neg, norm[1], norm[2])), <<>>)

\* The decimal scanned: its digits, the exponent written, what follows.
F64AfterExp(neg, intDigits, fracDigits, hasExp, expNeg, expDigits, afterExp) ==
    IF \/ Len(intDigits) + Len(fracDigits) = 0
       \/ (hasExp /\ expDigits = <<>>)
       \/ afterExp # <<>>
    THEN Err("ParseFloatError", -1)
    ELSE F64Round(neg,
             Normalize(DigitsToNat(StripZeros(intDigits \o fracDigits), 0),
                       (IF expNeg THEN 0 - DigitsToNat(expDigits, 0)
                        ELSE DigitsToNat(expDigits, 0))
                       - Len(fracDigits) + TrailingZeros(intDigits \o fracDigits)))

\* The exponent digits, from the Reader expStart on them and afterExp past them.
F64ExpDigits(neg, intDigits, fracDigits, hasExp, expNeg, expStart, afterExp) ==
    F64AfterExp(neg, intDigits, fracDigits, hasExp, expNeg,
                Take(expStart, Len(expStart) - Len(afterExp)), afterExp)

\* The exponent marker and its sign, at afterFrac.
F64AfterFrac(neg, intDigits, fracDigits, afterFrac) ==
    IF afterFrac = <<>> \/ Head(afterFrac) \notin {101, 69}
    THEN F64ExpDigits(neg, intDigits, fracDigits, FALSE, FALSE, afterFrac, afterFrac)
    ELSE IF Len(afterFrac) >= 2 /\ afterFrac[2] \in {43, 45}
    THEN F64ExpDigits(neg, intDigits, fracDigits, TRUE, afterFrac[2] = 45,
                      Drop(afterFrac, 2), skip_digits(Drop(afterFrac, 2)))
    ELSE F64ExpDigits(neg, intDigits, fracDigits, TRUE, FALSE,
                      Tail(afterFrac), skip_digits(Tail(afterFrac)))

\* The fraction digits, from the Reader fracStart on them and afterFrac past them.
F64FracDigits(neg, intDigits, fracStart, afterFrac) ==
    F64AfterFrac(neg, intDigits, Take(fracStart, Len(fracStart) - Len(afterFrac)), afterFrac)

\* The point, at afterInt.
F64AfterInt(neg, body, afterInt) ==
    IF afterInt # <<>> /\ Head(afterInt) = 46
    THEN F64FracDigits(neg, Take(body, Len(body) - Len(afterInt)),
                       Tail(afterInt), skip_digits(Tail(afterInt)))
    ELSE F64FracDigits(neg, Take(body, Len(body) - Len(afterInt)), afterInt, afterInt)

\* The words inf, infinity and nan in any case, else a decimal.
F64AfterSign(neg, body, low) ==
    IF low = <<105, 110, 102>> \/ low = <<105, 110, 102, 105, 110, 105, 116, 121>>
    THEN Ok(VNumber([neg |-> neg, mant |-> 0, exp |-> 0, cls |-> "inf"]), <<>>)
    ELSE IF low = <<110, 97, 110>>
    THEN Ok(VNumber([neg |-> neg, mant |-> 0, exp |-> 0, cls |-> "nan"]), <<>>)
    ELSE F64AfterInt(neg, body, skip_digits(body))

\* The string without its sign.
F64Unsigned(neg, body) ==
    F64AfterSign(neg, body, [i \in 1..Len(body) |-> ToLower(body[i])])

F64FromStr(s) ==
    F64Unsigned(s # <<>> /\ Head(s) = 45,
                IF s # <<>> /\ Head(s) \in {43, 45} THEN Tail(s) ELSE s)

\* read_number without the is_finite test.
read_number_finite_NoTest(v, rest) ==
    IF v.kind # "Ok" THEN Panic("read_number: s.parse().unwrap()")
    ELSE Ok(v.val, rest)

\* read_number, from the f64 parsed on: a non-finite value is refused.
read_number_finite(v, rest) ==
    IF v.kind # "Ok" THEN Panic("read_number: s.parse().unwrap()")
    ELSE IF v.val.n.cls # "finite" THEN Err("InfiniteFloat", -1)
    ELSE Ok(v.val, rest)

\* read_number, from the slice sl that skip_number covered on.
read_number_parse(sl) ==
    IF sl.kind # "Ok" THEN sl
    ELSE IF ~IsUtf8(sl.val.s) THEN Panic("read_number: str::from_utf8(slice).unwrap()")
    ELSE read_number_finite(F64FromStr(sl.val.s), sl.rest)

\* read_number
read_number(r) == read_number_parse(parse_slice(r, skip_number(r)))

RECURSIVE NatDigits(_)
NatDigits(m) == IF m < 10 THEN <<48 + m>> ELSE NatDigits(m \div 10) \o <<48 + (m % 10)>>

Zeros(n) == [i \in 1..n |-> 48]

\* impl Display for Number: `{}` of the f64 writes the shortest decimal that
\* reads back as the same f64, without an exponent, and the sign of a
\* negative number, -0.0 included.
DisplayNumber(n) ==
    LET ds == NatDigits(n.mant)
        nd == Len(ds)
        unsigned ==
            IF n.cls = "inf" THEN <<105, 110, 102>>
            ELSE IF n.cls = "nan" THEN <<78, 97, 78>>
            ELSE IF n.exp >= 0 THEN ds \o Zeros(n.exp)
            ELSE IF 0 - n.exp < nd
                 THEN Take(ds, nd + n.exp) \o <<46>> \o Drop(ds, nd + n.exp)
            ELSE <<48, 46>> \o Zeros(0 - n.exp - nd) \o ds
    IN IF n.neg /\ n.cls # "nan" THEN <<45>> \o unsigned ELSE unsigned

\* impl TryFrom<f64> for Number: Err(()) unless value.is_finite().
NumberTryFromF64(x) ==
    IF x.cls = "finite" THEN Ok(VNumber(x), <<>>) ELSE Err("()", -1)

\* f64::from(f32), exact.  An f32 is given as mant * 2^exp (or its class); the
\* f64 is the same number in decimal: mant * 2^exp for exp >= 0, and
\* mant * 5^(-exp) * 10^exp for exp < 0.
F64FromF32(x) ==
    IF x.cls # "finite" THEN [neg |-> x.neg, mant |-> 0, exp |-> 0, cls |-> x.cls]
    ELSE [neg |-> x.neg,
          mant |-> IF x.exp >= 0 THEN Normalize(x.mant * Pow(2, x.exp), 0)[1]
                   ELSE Normalize(x.mant * Pow(5, 0 - x.exp), x.exp)[1],
          exp |-> IF x.exp >= 0 THEN Normalize(x.mant * Pow(2, x.exp), 0)[2]
                  ELSE Normalize(x.mant * Pow(5, 0 - x.exp), x.exp)[2],
          cls |-> "finite"]

\* impl TryFrom<f32> for Number: f64::from(value).try_into()
NumberTryFromF32(x) == NumberTryFromF64(F64FromF32(x))

\* impl TryFrom<f64> for Value: Ok(Self::Number(value.try_into()?))
ValueTryFromF64(x) == NumberTryFromF64(x)

\* The derived PartialEq of Number: `==` of the two f64, under which the two
\* zeros are equal and a NaN equals nothing.
NumberEq(x, y) ==
    IF x.cls = "nan" \/ y.cls = "nan" THEN FALSE
    ELSE IF x.cls = "finite" /\ y.cls = "finite" /\ x.mant = 0 /\ y.mant = 0 THEN TRUE
    ELSE x = y

\* The order of the magnitudes of two finite doubles: -1, 0 or 1.
MagnitudeCmp(x, y) ==
    LET ax == x.exp + NumDigits(x.mant)
        ay == y.exp + NumDigits(y.mant)
        lx == x.mant * Pow(10, 9 - NumDigits(x.mant))
        ly == y.mant * Pow(10, 9 - NumDigits(y.mant))
    IN IF x.mant = 0 /\ y.mant = 0 THEN 0
       ELSE IF x.mant = 0 THEN -1
       ELSE IF y.mant = 0 THEN 1
       ELSE IF ax < ay THEN -1
       ELSE IF ax > ay THEN 1
       ELSE IF lx < ly THEN -1
       ELSE IF lx > ly THEN 1
       ELSE 0

\* impl Ord for Number: self.partial_cmp(other).unwrap(), the numeric order
\* of the two f64: -1 (Less), 0 (Equal), 1 (Greater); 2 stands for the panic
\* of unwrap on the None that a NaN gives.
NumberCmp(x, y) ==
    IF x.cls = "nan" \/ y.cls = "nan" THEN 2
    ELSE IF x.mant = 0 /\ y.mant = 0 /\ x.cls = "finite" /\ y.cls = "finite" THEN 0
    ELSE IF x.neg /\ ~y.neg THEN -1
    ELSE IF ~x.neg /\ y.neg THEN 1
    ELSE LET m == IF x.cls = "inf" /\ y.cls = "inf" THEN 0
                  ELSE IF x.cls = "inf" THEN 1
                  ELSE IF y.cls = "inf" THEN -1
                  ELSE MagnitudeCmp(x, y)
         IN IF x.neg THEN 0 - m ELSE m

\* f64::to_bits, up to an injective renaming of the 64-bit patterns: the
\* sign bit first, then what fixes exponent and fraction.
to_bits(x) == <<IF x.neg THEN 1 ELSE 0, x.cls, x.exp, x.mant>>

\* impl Hash for Number: the hash is a function of to_bits alone.
NumberHash(x) == to_bits(x)

(***************************************************************************)
(* Object's BTreeMap<JsonString, Value>: the entries [k, v] in ascending   *)
(* order of the keys under the derived Ord of JsonString, which is the     *)
(* derived Ord of Wtf8Buf, the lexicographic order of its bytes.           *)
(***************************************************************************)
JsonStringCmp(x, y) == SeqCmp(x, y)

\* MapInsert as entry(k).or_insert(v) would do it: an equal key keeps its value.
RECURSIVE MapInsert_KeepFirst(_, _, _)
MapInsert_KeepFirst(m, k, v) ==
    IF m = <<>> THEN <<[k |-> k, v |-> v]>>
    ELSE LET c == JsonStringCmp(k, Head(m).k) IN
         IF c = 0 THEN m
         ELSE IF c < 0 THEN <<[k |-> k, v |-> v]>> \o m
         ELSE <<Head(m)>> \o MapInsert_KeepFirst(Tail(m), k, v)

\* BTreeMap::insert: the value of an equal key is replaced, a new key takes
\* its place in the order.
RECURSIVE MapInsert(_, _, _)
MapInsert(m, k, v) ==
    IF m = <<>> THEN <<[k |-> k, v |-> v]>>
    ELSE LET c == JsonStringCmp(k, Head(m).k) IN
         IF c = 0 THEN <<[k |-> Head(m).k, v |-> v]>> \o Tail(m)
         ELSE IF c < 0 THEN <<[k |-> k, v |-> v]>> \o m
         ELSE <<Head(m)>> \o MapInsert(Tail(m), k, v)

(***************************************************************************)
(* Value parser (lib.rs), array grammar (array.rs), object grammar         *)
(* (object.rs).                                                            *)
(***************************************************************************)
\* The nested calls of read_value the call stack has room for. The code sets
\* no limit of its own (read_value -> read_array / read_object -> read_value,
\* one level per nested container); the stack of the thread is the limit, and
\* this is its capacity scaled down to a depth the inputs below can reach.
StackFrames == 6

\* The abort of the process when the recursion runs off the stack.
StackOverflow ==
    [kind |-> "Abort", val |-> Blank, err |-> "stack overflow", byte |-> -1, rest |-> <<>>]

RECURSIVE read_value(_, _), read_array(_, _), read_array_loop(_, _, _)
RECURSIVE read_object(_, _), read_object_loop(_, _, _)

\* A literal of read_value: read_bytes::<N>()? compared with the word.
read_literal(r, word, v, e) ==
    LET got == read_bytes(r, Len(word)) IN
    IF got.kind # "Ok" THEN got
    ELSE IF got.val.s # word THEN Err(e, -1)
    ELSE Ok(v, got.rest)

\* The arms of the match of read_value on the first byte b of r, d calls of
\* read_value deep.
read_value_match(r, b, d) ==
    IF b = 110 THEN read_literal(r, <<110, 117, 108, 108>>, VNull, "ExpectedNull")
    ELSE IF b = 102
         THEN read_literal(r, <<102, 97, 108, 115, 101>>, VBool(FALSE), "ExpectedFalse")
    ELSE IF b = 116 THEN read_literal(r, <<116, 114, 117, 101>>, VBool(TRUE), "ExpectedTrue")
    ELSE IF b = 45 \/ IsDigit(b) THEN read_number(r)
    ELSE IF b = 34 THEN read_string(r)
    ELSE IF b = 91 THEN read_array(r, d + 1)
    ELSE IF b = 123 THEN read_object(r, d + 1)
    ELSE Err("UnexpectedStartOfValue", b)

\* The end of read_value without the skip_whitespace that follows the value.
read_value_end_NoTrailingSkip(v) == v

\* The end of read_value: the whitespace after the value v is skipped.
read_value_end(v) == IF v.kind # "Ok" THEN v ELSE Ok(v.val, skip_whitespace(v.rest))

\* read_value from peek_byte on, r the Reader after the skip_whitespace.
read_value_peek(r, d) ==
    IF d >= StackFrames THEN StackOverflow
    ELSE IF r = <<>> THEN Err("UnexpectedEof", -1)
    ELSE read_value_end(read_value_match(r, Head(r), d))

\* read_value, called with d calls of read_value already on the stack.
read_value(r0, d) == read_value_peek(skip_whitespace(r0), d)

\* read_array_next with a ']' right after a comma taken as the end of the array.
read_array_next_TrailingComma(v, inner, d) ==
    IF v.kind # "Ok" THEN v
    ELSE IF v.rest = <<>> THEN Err("UnexpectedEof", -1)
    ELSE IF Head(v.rest) = 93 THEN Ok(VArray(Append(inner, v.val)), Tail(v.rest))
    ELSE IF Head(v.rest) = 44
         THEN (IF Tail(v.rest) # <<>> /\ Head(Tail(v.rest)) = 93
               THEN Ok(VArray(Append(inner, v.val)), Tail(Tail(v.rest)))
               ELSE read_array_loop(Tail(v.rest), Append(inner, v.val), d))
    ELSE Err("ExpectedCommaOrRightBracket", Head(v.rest))

\* The loop of read_array after read_value gave v: the match on read_byte.
read_array_next(v, inner, d) ==
    IF v.kind # "Ok" THEN v
    ELSE IF v.rest = <<>> THEN Err("UnexpectedEof", -1)
    ELSE IF Head(v.rest) = 93 THEN Ok(VArray(Append(inner, v.val)), Tail(v.rest))
    ELSE IF Head(v.rest) = 44 THEN read_array_loop(Tail(v.rest), Append(inner, v.val), d)
    ELSE Err("ExpectedCommaOrRightBracket", Head(v.rest))

\* The loop of read_array: inner holds the elements read so far.
read_array_loop(r, inner, d) == read_array_next(read_value(r, d), inner, d)

\* read_array from the skip_whitespace after the bracket on.
read_array_first(r1, d) ==
    IF r1 # <<>> /\ Head(r1) = 93 THEN Ok(VArray(<<>>), Tail(r1))
    ELSE read_array_loop(r1, <<>>, d)

\* read_array
read_array(r, d) ==
    IF r = <<>> THEN Err("UnexpectedEof", -1)
    ELSE IF Head(r) # 91 THEN Err("ExpectedLeftBracket", Head(r))
    ELSE read_array_first(skip_whitespace(Tail(r)), d)

\* The loop of read_object after inner.insert gave m: the match on the
\* read_byte that follows skip_whitespace.
read_object_sep(m, r2, d) ==
    IF r2 = <<>> THEN Err("UnexpectedEof", -1)
    ELSE IF Head(r2) = 44 THEN read_object_loop(skip_whitespace(Tail(r2)), m, d)
    ELSE IF Head(r2) = 125 THEN Ok(VObject(m), Tail(r2))
    ELSE Err("ExpectedCommaOrRightBrace", Head(r2))

\* The loop of read_object after read_value gave v: inner.insert(key, value).
read_object_insert(k, v, inner, d) ==
    IF v.kind # "Ok" THEN v
    ELSE read_object_sep(MapInsert(inner, k, v.val), skip_whitespace(v.rest), d)

\* The loop of read_object after the key k: the colon, then read_value.
read_object_colon(k, r1, inner, d) ==
    IF r1 = <<>> THEN Err("UnexpectedEof", -1)
    ELSE IF Head(r1) # 58 THEN Err("ExpectedColon", Head(r1))
    ELSE read_object_insert(k, read_value(Tail(r1), d), inner, d)

\* The loop of read_object after read_string gave key.
read_object_key(key, inner, d) ==
    IF key.kind # "Ok" THEN key
    ELSE read_object_colon(key.val.s, skip_whitespace(key.rest), inner, d)

\* The loop of read_object: inner holds the map built so far.
read_object_loop(r, inner, d) == read_object_key(read_string(r), inner, d)

\* read_object from the skip_whitespace after the brace on.
read_object_first(r1, d) ==
    IF r1 # <<>> /\ Head(r1) = 125 THEN Ok(VObject(<<>>), Tail(r1))
    ELSE read_object_loop(r1, <<>>, d)

\* read_object
read_object(r, d) ==
    IF r = <<>> THEN Err("UnexpectedEof", -1)
    ELSE IF Head(r) # 123 THEN Err("ExpectedLeftBrace", Head(r))
    ELSE read_object_first(skip_whitespace(Tail(r)), d)

\* Reader::read_all, given the result of f on the whole input.
read_all(res) ==
    IF res.kind # "Ok" THEN res
    ELSE IF res.rest # <<>> THEN Err("TrailingData", -1)
    ELSE Ok(res.val, <<>>)

\* Value::from_json
ValueFromJson(bs) == read_all(read_value(bs, 0))

\* Array::from_json
ArrayFromJson(bs) == read_all(read_array(bs, 0))

\* Object::from_json
ObjectFromJson(bs) == read_all(read_object(bs, 0))

\* JsonString::from_json
JsonStringFromJson(bs) == read_all(read_string(bs))

\* Number::from_json
NumberFromJson(bs) == read_all(read_number(bs))

(***************************************************************************)
(* Serializer: the bytes of to_string().                                   *)
(***************************************************************************)
RECURSIVE DisplayValue(_), DisplayArrayItems(_, _), DisplayObjectItems(_, _)

\* impl Display for Value
DisplayValue(v) ==
    CASE v.t = "Null" -> <<110, 117, 108, 108>>
      [] v.t = "Bool" -> IF v.b THEN <<116, 114, 117, 101>> ELSE <<102, 97, 108, 115, 101>>
      [] v.t = "Number" -> DisplayNumber(v.n)
      [] v.t = "String" -> DisplayJsonString(v.s)
      [] v.t = "Array" -> <<91>> \o DisplayArrayItems(v.a, 0) \o <<93>>
      [] v.t = "Object" -> <<123>> \o DisplayObjectItems(v.o, 0) \o <<125>>

\* DisplayArrayItems without the test that keeps the comma off element 0.
DisplayArrayItems_CommaFirst(a, i) ==
    IF a = <<>> THEN <<>>
    ELSE <<44>> \o DisplayValue(Head(a)) \o DisplayArrayItems(Tail(a), i + 1)

\* The loop of impl Display for Array, from element i on.
DisplayArrayItems(a, i) ==
    IF a = <<>> THEN <<>>
    ELSE (IF i # 0 THEN <<44>> ELSE <<>>) \o DisplayValue(Head(a))
         \o DisplayArrayItems(Tail(a), i + 1)

\* The loop of impl Display for Object, from entry i of inner.iter() on.
DisplayObjectItems(o, i) ==
    IF o = <<>> THEN <<>>
    ELSE (IF i # 0 THEN <<44>> ELSE <<>>) \o DisplayJsonString(Head(o).k) \o <<58>>
         \o DisplayValue(Head(o).v) \o DisplayObjectItems(Tail(o), i + 1)

\* The derived PartialEq of Value, Array (Vec) and Object (BTreeMap).
RECURSIVE ValueEq(_, _), ArrayEq(_, _), MapEq(_, _)
ValueEq(x, y) ==
    /\ x.t = y.t
    /\ CASE x.t = "Null" -> TRUE
         [] x.t = "Bool" -> x.b = y.b
         [] x.t = "Number" -> NumberEq(x.n, y.n)
         [] x.t = "String" -> x.s = y.s
         [] x.t = "Array" -> ArrayEq(x.a, y.a)
         [] x.t = "Object" -> MapEq(x.o, y.o)

ArrayEq(a, b) ==
    /\ Len(a) = Len(b)
    /\ (a # <<>> => ValueEq(Head(a), Head(b)) /\ ArrayEq(Tail(a), Tail(b)))

MapEq(a, b) ==
    /\ Len(a) = Len(b)
    /\ (a # <<>> => /\ Head(a).k = Head(b).k
                    /\ ValueEq(Head(a).v, Head(b).v)
                    /\ MapEq(Tail(a), Tail(b)))

\* Result<_, Error> == Result<_, Error>
ResultEq(x, y) ==
    /\ x.kind = y.kind
    /\ (x.kind = "Ok" => ValueEq(x.val, y.val))
    /\ (x.kind = "Err" => x.err = y.err /\ x.byte = y.byte)

(***************************************************************************)
(* Bounds.                                                                 *)
(***************************************************************************)
MaxTokens == 3

MaxStrTokens == 3

MaxUnits == 3

MaxNodes == 3

MaxPad == 1

MaxMembers == 3

MaxNumTokens == 3

MaxDepth == 6

MaxSpelled == 2

\* The bytes of a buffer handed to Reader::read_char.
MaxBytes == 4

(***************************************************************************)
(* The calls.  bytes is the input of the from_json calls, value the Value  *)
(* a caller holds, units the code units a JsonString is built from,        *)
(* members the members a caller wrote into an object text, result what the *)
(* last from_json call returned, op the last call made, pieces the number  *)
(* of pieces the input was put together from.                              *)
(***************************************************************************)
FromJsonOps ==
    {"Value::from_json", "Array::from_json", "Object::from_json",
     "JsonString::from_json", "Number::from_json"}

HasBytes ==
    op \in FromJsonOps \cup {"bytes", "string_bytes", "number_bytes", "nesting_bytes", "to_string"}

ValueFromJsonCall ==
    /\ HasBytes
    /\ result' = ValueFromJson(bytes)
    /\ op' = "Value::from_json"
    /\ UNCHANGED <<bytes, value, units, members, pieces>>

ArrayFromJsonCall ==
    /\ HasBytes
    /\ result' = ArrayFromJson(bytes)
    /\ op' = "Array::from_json"
    /\ UNCHANGED <<bytes, value, units, members, pieces>>

ObjectFromJsonCall ==
    /\ HasBytes
    /\ result' = ObjectFromJson(bytes)
    /\ op' = "Object::from_json"
    /\ UNCHANGED <<bytes, value, units, members, pieces>>

JsonStringFromJsonCall ==
    /\ HasBytes
    /\ result' = JsonStringFromJson(bytes)
    /\ op' = "JsonString::from_json"
    /\ UNCHANGED <<bytes, value, units, members, pieces>>

NumberFromJsonCall ==
    /\ HasBytes
    /\ result' = NumberFromJson(bytes)
    /\ op' = "Number::from_json"
    /\ UNCHANGED <<bytes, value, units, members, pieces>>

\* JsonString::into_string: Ok of the String that takes the bytes of the
\* buffer when it holds no surrogate, else Err of the JsonString given back.
into_string(s) ==
    IF next_surrogate(s, 0) = -1 THEN Ok(VString(s), <<>>)
    ELSE [kind |-> "Err", val |-> VString(s), err |-> "JsonString", byte |-> -1, rest |-> <<>>]

\* JsonString::as_str: Some of the bytes as a str when the buffer holds no
\* surrogate, else None.
as_str(s) ==
    IF next_surrogate(s, 0) = -1 THEN Ok(VString(s), <<>>)
    ELSE [kind |-> "None", val |-> Blank, err |-> "", byte |-> -1, rest |-> <<>>]

\* s.into_string() of the JsonString held.
IntoStringCall ==
    /\ op \in {"from_ill_formed_utf16", "as_str"}
    /\ result' = into_string(value.s)
    /\ op' = "into_string"
    /\ UNCHANGED <<bytes, value, units, members, pieces>>

\* s.as_str() of the JsonString held.
AsStrCall ==
    /\ op = "from_ill_formed_utf16"
    /\ result' = as_str(value.s)
    /\ op' = "as_str"
    /\ UNCHANGED <<bytes, value, units, members, pieces>>

\* value.to_string() of the value held.
ToStringCall ==
    /\ op \in {"value", "from_ill_formed_utf16"}
    /\ bytes' = DisplayValue(value)
    /\ op' = "to_string"
    /\ UNCHANGED <<value, units, members, result, pieces>>

\* The caller keeps the value a from_json call returned and serializes it.
ToStringOfResult ==
    /\ op \in FromJsonOps
    /\ result.kind = "Ok"
    /\ value' = result.val
    /\ bytes' = DisplayValue(result.val)
    /\ result' = NoResult
    /\ op' = "to_string"
    /\ UNCHANGED <<units, members, pieces>>

\* JsonString::from_ill_formed_utf16(units)
FromIllFormedUtf16Call ==
    /\ op = "units"
    /\ value' = VString(from_ill_formed_utf16(units))
    /\ op' = "from_ill_formed_utf16"
    /\ UNCHANGED <<bytes, units, members, result, pieces>>

(***************************************************************************)
(* Spec: arbitrary documents, put together from fragments, given to        *)
(* Value::from_json.                                                       *)
(***************************************************************************)
\* Fragments of documents: a space, digits, sign, point, exponent mark,
\* delimiters, the empty string "", null, true, a cut false, a stray byte.
GrammarTokens ==
    { <<32>>, <<48>>, <<49>>, <<45>>, <<46>>, <<101>>,
      <<91>>, <<93>>, <<123>>, <<125>>, <<44>>, <<58>>, <<34, 34>>,
      <<110, 117, 108, 108>>, <<116, 114, 117, 101>>, <<102, 97, 108, 115>>, <<120>>,
      <<91, 49>>, <<123, 34, 97, 34, 58, 49>> }

\* Fragments of string literals: a, a backslash, \u, hex digit pairs, a pair
\* with a non-hex digit, \n, \x, a control byte, the UTF-8 of U+00E9, its
\* lead byte alone, the three bytes a surrogate would take, a cut four-byte
\* sequence, the UTF-8 of U+1F600, the closing quote.
StringTokens ==
    { <<97>>, <<92>>, <<92, 117>>, <<48, 48>>, <<100, 56>>, <<52, 103>>,
      <<92, 110>>, <<92, 120>>, <<1>>, <<195, 169>>, <<195>>,
      <<237, 160, 128>>, <<240, 159>>, <<240, 159, 152, 128>>, <<34>> }

\* The caller appends a fragment to a document.
AppendGrammarToken ==
    /\ op = "bytes"
    /\ pieces < MaxTokens
    /\ \E tok \in GrammarTokens : bytes' = bytes \o tok
    /\ pieces' = pieces + 1
    /\ UNCHANGED <<value, units, members, result, op>>

\* The caller appends a fragment to a document that opens a string literal.
AppendStringToken ==
    /\ op = "string_bytes"
    /\ pieces < MaxStrTokens
    /\ \E tok \in StringTokens : bytes' = bytes \o tok
    /\ pieces' = pieces + 1
    /\ UNCHANGED <<value, units, members, result, op>>

Init ==
    /\ \/ bytes = <<>> /\ op = "bytes"
       \/ bytes = <<34>> /\ op = "string_bytes"
    /\ value = Blank
    /\ units = <<>>
    /\ members = <<>>
    /\ result = NoResult
    /\ pieces = 0

Next == AppendGrammarToken \/ AppendStringToken \/ ValueFromJsonCall \/ ToStringOfResult

Spec == Init /\ [][Next]_vars

\* The cases of enum Error.
ErrorCases ==
    { "UnexpectedEof", "TrailingData", "InvalidControlCharacter", "ExpectedDoubleQuote",
      "UnexpectedEscape", "InvalidHexChar", "InvalidUtf8Char", "UnexpectedStartOfValue",
      "ExpectedNull", "ExpectedTrue", "ExpectedFalse", "InvalidDigit", "InfiniteFloat",
      "ExpectedLeftBracket", "ExpectedCommaOrRightBracket", "ExpectedLeftBrace",
      "ExpectedColon", "ExpectedCommaOrRightBrace" }

\* C10: Value::from_json of any byte sequence ends in Ok of a value, with the
\* input consumed, or in Err of one of the cases of Error, with no value; no
\* unwrap, assert or checked arithmetic on the way fails.
C10_OkOrTypedError ==
    op = "Value::from_json" =>
        \/ result.kind = "Ok" /\ result.rest = <<>>
        \/ result.kind = "Err" /\ result.err \in ErrorCases /\ result.val = Blank

(***************************************************************************)
(* SpecNesting: texts that open container after container, given to        *)
(* Value::from_json.                                                       *)
(***************************************************************************)
\* What opens one more level: [ and {"": and, after an element 0, [0,
NestingTokens == {<<91>>, <<123, 34, 34, 58>>, <<91, 48, 44>>}

\* The caller opens one more container in the text.
OpenContainer ==
    /\ op = "nesting_bytes"
    /\ pieces < MaxDepth
    /\ \E tok \in NestingTokens : bytes' = bytes \o tok
    /\ pieces' = pieces + 1
    /\ UNCHANGED <<value, units, members, result, op>>

InitNesting ==
    /\ bytes = <<>>
    /\ value = Blank
    /\ units = <<>>
    /\ members = <<>>
    /\ result = NoResult
    /\ op = "nesting_bytes"
    /\ pieces = 0

NextNesting == OpenContainer \/ ValueFromJsonCall

SpecNesting == InitNesting /\ [][NextNesting]_vars

(***************************************************************************)
(* SpecString: strings built from code units, serialized and read back.    *)
(***************************************************************************)
\* The code units drawn: the escaped ASCII characters, controls, plain
\* characters, and the units around and inside the surrogate range.
UnitAlphabet ==
    { 34, 92, 47, 8, 12, 10, 13, 9, 0, 31, 97, 127,
      55296, 56319, 56320, 57343, 57344, 65535 }

\* The caller appends a code unit to the vector of units.
AppendUnit ==
    /\ op = "units"
    /\ Len(units) < MaxUnits
    /\ \E u \in UnitAlphabet : units' = Append(units, u)
    /\ UNCHANGED <<bytes, value, members, result, op, pieces>>

InitString ==
    /\ units = <<>>
    /\ bytes = <<>>
    /\ value = Blank
    /\ members = <<>>
    /\ result = NoResult
    /\ op = "units"
    /\ pieces = 0

NextString ==
    \/ AppendUnit
    \/ FromIllFormedUtf16Call
    \/ ToStringCall
    \/ JsonStringFromJsonCall
    \/ IntoStringCall
    \/ AsStrCall

SpecString == InitString /\ [][NextString]_vars

\* C2: a JsonString built from any sequence of code units, serialized and
\* read back with JsonString::from_json, comes back Ok, equal to the string
\* serialized and with exactly the code units it was built from.
C2_StringRoundTrip ==
    op = "JsonString::from_json" =>
        /\ result.kind = "Ok"
        /\ result.val = value
        /\ to_ill_formed_utf16(result.val.s) = units

\* A lone high surrogate followed by a valid pair has made the round trip.
C2_Witness ==
    /\ op = "JsonString::from_json"
    /\ units = <<55296, 55296, 56320>>
    /\ result.kind = "Ok"

\* Whether the code units are well-formed UTF-16 (every surrogate paired).
RECURSIVE WellFormedUtf16(_)
WellFormedUtf16(us) ==
    IF us = <<>> THEN TRUE
    ELSE IF IsLead(us[1]) THEN Len(us) >= 2 /\ IsTrail(us[2]) /\ WellFormedUtf16(Drop(us, 2))
    ELSE ~IsTrail(us[1]) /\ WellFormedUtf16(Tail(us))

\* The scalar values well-formed UTF-16 encodes.
RECURSIVE ScalarsOf(_)
ScalarsOf(us) ==
    IF us = <<>> THEN <<>>
    ELSE IF IsLead(us[1])
         THEN <<65536 + (us[1] - 55296) * 1024 + (us[2] - 56320)>> \o ScalarsOf(Drop(us, 2))
    ELSE <<us[1]>> \o ScalarsOf(Tail(us))

\* The text C9 gives a scalar value: slashEscaped tells whether '/' is
\* written with a backslash.
EscapeTable(c, slashEscaped) ==
    IF c = 34 THEN <<92, 34>>
    ELSE IF c = 92 THEN <<92, 92>>
    ELSE IF c = 47 /\ slashEscaped THEN <<92, 47>>
    ELSE IF c = 8 THEN <<92, 98>>
    ELSE IF c = 12 THEN <<92, 102>>
    ELSE IF c = 10 THEN <<92, 110>>
    ELSE IF c = 13 THEN <<92, 114>>
    ELSE IF c = 9 THEN <<92, 116>>
    ELSE IF c < 32 THEN <<92, 117, 48, 48, HexDigit(c \div 16), HexDigit(c % 16)>>
    ELSE EncodeCodePoint(c)

RECURSIVE EscapeAll(_, _)
EscapeAll(cs, slashEscaped) ==
    IF cs = <<>> THEN <<>>
    ELSE EscapeTable(Head(cs), slashEscaped) \o EscapeAll(Tail(cs), slashEscaped)

\* C9 as stated: the serialized text of a string of scalar values is, between
\* the quotes, the text of each scalar in turn, where only the double quote,
\* the backslash and the code points below U+0020 are escaped and '/' is
\* written literally.
C9_Original ==
    (op = "to_string" /\ WellFormedUtf16(units)) =>
        bytes = <<34>> \o EscapeAll(ScalarsOf(units), FALSE) \o <<34>>

\* C9 amended: as stated, except that '/' is written as backslash + '/'.
C9_EscapesWithSlash ==
    (op = "to_string" /\ WellFormedUtf16(units)) =>
        bytes = <<34>> \o EscapeAll(ScalarsOf(units), TRUE) \o <<34>>

\* A string holding '/', U+007F and a control has been serialized.
C9_Witness ==
    /\ op = "to_string"
    /\ units = <<47, 127, 31>>
    /\ bytes = <<34, 92, 47, 127, 92, 117, 48, 48, 49, 102, 34>>

\* C11: into_string of a JsonString returns Ok exactly when its code units
\* hold no unpaired surrogate, and then the String is valid UTF-8 whose UTF-16
\* encoding is those units; otherwise it returns Err of a JsonString equal to
\* the original, with the same units.  as_str returns Some in the same cases,
\* of the same text.
C11_IntoStringIffWellFormed ==
    /\ op = "into_string" =>
          IF WellFormedUtf16(units)
          THEN /\ result.kind = "Ok"
               /\ IsUtf8(result.val.s)
               /\ UnitsOf(Utf8Chars(result.val.s)) = units
          ELSE /\ result.kind = "Err"
               /\ result.val = value
               /\ to_ill_formed_utf16(result.val.s) = units
    /\ op = "as_str" =>
          IF WellFormedUtf16(units)
          THEN /\ result.kind = "Ok"
               /\ IsUtf8(result.val.s)
               /\ UnitsOf(Utf8Chars(result.val.s)) = units
          ELSE result.kind = "None"

\* A trail surrogate followed by a lead surrogate has been refused by
\* into_string and given back.
C11_Witness ==
    /\ op = "into_string"
    /\ units = <<56320, 55296>>
    /\ result.kind = "Err"
    /\ result.val = value

(***************************************************************************)
(* SpecSpelling: a JsonString built from code units, and a string literal  *)
(* written piece by piece in several spellings and read by                 *)
(* JsonString::from_json.                                                  *)
(***************************************************************************)
\* The units of the built string: a, the pair D83D DE00 of U+1F600.
SpellingUnits == {97, 55357, 56832}

\* The pieces of the literal, each with the code units it stands for: a, a
\* as a hex escape, U+1F600 as UTF-8, U+1F600 as an escaped pair, its lead
\* surrogate alone and its trail surrogate alone as hex escapes.
Spellings ==
    { [units |-> <<97>>, text |-> <<97>>],
      [units |-> <<97>>, text |-> <<92, 117, 48, 48, 54, 49>>],
      [units |-> <<55357, 56832>>, text |-> <<240, 159, 152, 128>>],
      [units |-> <<55357, 56832>>,
       text |-> <<92, 117, 100, 56, 51, 100, 92, 117, 100, 101, 48, 48>>],
      [units |-> <<55357>>, text |-> <<92, 117, 100, 56, 51, 100>>],
      [units |-> <<56832>>, text |-> <<92, 117, 68, 69, 48, 48>>] }

\* The caller appends a code unit to the vector of units.
AppendSpellingUnit ==
    /\ op = "units"
    /\ Len(units) < MaxUnits
    /\ \E u \in SpellingUnits : units' = Append(units, u)
    /\ UNCHANGED <<bytes, value, members, result, op, pieces>>

\* The caller writes one more piece of the string literal.
AppendSpelled ==
    /\ op = "from_ill_formed_utf16"
    /\ Len(members) < MaxSpelled
    /\ \E sp \in Spellings :
          /\ bytes' = bytes \o sp.text
          /\ members' = Append(members, [units |-> sp.units])
    /\ UNCHANGED <<value, units, result, op, pieces>>

\* The caller closes the string literal.
CloseString ==
    /\ op = "from_ill_formed_utf16"
    /\ bytes' = bytes \o <<34>>
    /\ op' = "bytes"
    /\ UNCHANGED <<value, units, members, result, pieces>>

InitSpelling ==
    /\ bytes = <<34>>
    /\ value = Blank
    /\ units = <<>>
    /\ members = <<>>
    /\ result = NoResult
    /\ op = "units"
    /\ pieces = 0

NextSpelling ==
    \/ AppendSpellingUnit
    \/ FromIllFormedUtf16Call
    \/ AppendSpelled
    \/ CloseString
    \/ JsonStringFromJsonCall

SpecSpelling == InitSpelling /\ [][NextSpelling]_vars

\* The code units the pieces written stand for, in order.
RECURSIVE WrittenUnits(_)
WrittenUnits(ms) == IF ms = <<>> THEN <<>> ELSE Head(ms).units \o WrittenUnits(Tail(ms))

\* C13: the JsonString read from a literal, whatever the spelling of its
\* pieces, has the code units written, and it equals the JsonString built
\* with from_ill_formed_utf16 exactly when the units written are the units
\* that one was built from.
C13_EqualIffSameUnits ==
    op = "JsonString::from_json" =>
        /\ result.kind = "Ok"
        /\ to_ill_formed_utf16(result.val.s) = WrittenUnits(members)
        /\ (result.val = value) <=> (WrittenUnits(members) = units)

\* The lead and the trail surrogate written as two separate escapes have
\* been read as the string from_ill_formed_utf16 builds from the pair.
C13_Witness ==
    /\ op = "JsonString::from_json"
    /\ units = <<55357, 56832>>
    /\ bytes = <<34, 92, 117, 100, 56, 51, 100, 92, 117, 68, 69, 48, 48, 34>>
    /\ result.kind = "Ok"
    /\ result.val = value

(***************************************************************************)
(* SpecRoundTrip: values built by a caller, serialized and read back.      *)
(***************************************************************************)
\* Finite doubles: 0.0, -0.0, -1.5, 120.0, 0.005.
NumberLeaves ==
    { [neg |-> FALSE, mant |-> 0, exp |-> 0, cls |-> "finite"],
      [neg |-> TRUE, mant |-> 0, exp |-> 0, cls |-> "finite"],
      [neg |-> TRUE, mant |-> 15, exp |-> -1, cls |-> "finite"],
      [neg |-> FALSE, mant |-> 12, exp |-> 1, cls |-> "finite"],
      [neg |-> FALSE, mant |-> 5, exp |-> -3, cls |-> "finite"] }

\* Strings: empty, a quote and a backslash, a lone high surrogate before a
\* pair, a lone low surrogate.
StringLeaves ==
    { from_ill_formed_utf16(us) :
        us \in {<<>>, <<34, 92>>, <<55296, 55296, 56320>>, <<57343>>} }

\* Keys: a, a lone high surrogate, U+E000, U+10000.
KeyLeaves ==
    { from_ill_formed_utf16(us) : us \in {<<97>>, <<55296>>, <<57344>>, <<55296, 56320>>} }

Leaves ==
    {VNull, VBool(TRUE), VBool(FALSE), VArray(<<>>), VObject(<<>>)}
    \cup {VNumber(n) : n \in NumberLeaves} \cup {VString(s) : s \in StringLeaves}

\* The number of Value nodes of a value.
RECURSIVE Nodes(_), NodesOfSeq(_), NodesOfMap(_)
Nodes(v) ==
    IF v.t = "Array" THEN 1 + NodesOfSeq(v.a)
    ELSE IF v.t = "Object" THEN 1 + NodesOfMap(v.o)
    ELSE 1

NodesOfSeq(a) == IF a = <<>> THEN 0 ELSE Nodes(Head(a)) + NodesOfSeq(Tail(a))

NodesOfMap(o) == IF o = <<>> THEN 0 ELSE Nodes(Head(o).v) + NodesOfMap(Tail(o))

\* Value::from(vec) with one more element: the caller's Vec<Value> grows.
PushElement ==
    /\ op = "value"
    /\ value.t = "Array"
    /\ Nodes(value) < MaxNodes
    /\ \E leaf \in Leaves : value' = VArray(Append(value.a, leaf))
    /\ UNCHANGED <<bytes, units, members, result, op, pieces>>

\* Object::insert(key, leaf)
InsertMember ==
    /\ op = "value"
    /\ value.t = "Object"
    /\ Nodes(value) < MaxNodes
    /\ \E key \in KeyLeaves, leaf \in Leaves : value' = VObject(MapInsert(value.o, key, leaf))
    /\ UNCHANGED <<bytes, units, members, result, op, pieces>>

\* Value::from(vec![value])
WrapInArray ==
    /\ op = "value"
    /\ Nodes(value) < MaxNodes
    /\ value' = VArray(<<value>>)
    /\ UNCHANGED <<bytes, units, members, result, op, pieces>>

\* Value::from(BTreeMap::from([(key, value)]))
WrapInObject ==
    /\ op = "value"
    /\ Nodes(value) < MaxNodes
    /\ \E key \in KeyLeaves : value' = VObject(<<[k |-> key, v |-> value]>>)
    /\ UNCHANGED <<bytes, units, members, result, op, pieces>>

InitRoundTrip ==
    /\ value \in Leaves
    /\ bytes = <<>>
    /\ units = <<>>
    /\ members = <<>>
    /\ result = NoResult
    /\ op = "value"
    /\ pieces = 0

NextRoundTrip ==
    \/ PushElement
    \/ InsertMember
    \/ WrapInArray
    \/ WrapInObject
    \/ ToStringCall
    \/ ValueFromJsonCall

SpecRoundTrip == InitRoundTrip /\ [][NextRoundTrip]_vars

\* C1: Value::from_json of the serialized text of a value returns Ok with a
\* value equal to the one serialized.
C1_ValueRoundTrip ==
    op = "Value::from_json" => result.kind = "Ok" /\ ValueEq(result.val, value)

\* An array holding an object whose key is a lone surrogate has made the
\* round trip.
C1_Witness ==
    /\ op = "Value::from_json"
    /\ result.kind = "Ok"
    /\ value.t = "Array"
    /\ Len(value.a) = 1
    /\ value.a[1].t = "Object"
    /\ Len(value.a[1].o) = 1
    /\ value.a[1].o[1].k = <<237, 160, 128>>
    /\ value.a[1].o[1].v.t = "Array"

(***************************************************************************)
(* SpecEntry: documents with whitespace and other bytes around them, given *)
(* to the five from_json entry points.                                     *)
(***************************************************************************)
\* The documents padded: 1, -0, 1.5e1, "", "a", [], [1], [ 1 , 0 ], {},
\* {"a":1}, { "a" : 1 }, null, true, false, [1,], and the literals with a
\* leading zero 01, -012, [00], [1,-01], [[01]], {"a":01}.
Cores ==
    { <<49>>, <<45, 48>>, <<49, 46, 53, 101, 49>>, <<34, 34>>, <<34, 97, 34>>,
      <<91, 93>>, <<91, 49, 93>>, <<91, 32, 49, 32, 44, 32, 48, 32, 93>>,
      <<123, 125>>, <<123, 34, 97, 34, 58, 49, 125>>,
      <<123, 32, 34, 97, 34, 32, 58, 32, 49, 32, 125>>,
      <<110, 117, 108, 108>>, <<116, 114, 117, 101>>, <<102, 97, 108, 115, 101>>,
      <<91, 49, 44, 93>>,
      <<48, 49>>, <<45, 48, 49, 50>>, <<91, 48, 48, 93>>, <<91, 49, 44, 45, 48, 49, 93>>,
      <<91, 91, 48, 49, 93, 93>>, <<123, 34, 97, 34, 58, 48, 49, 125>> }

\* What is put before a document: nothing or one whitespace byte.
PadBefore == {<<>>, <<9>>, <<10>>, <<13>>, <<32>>}

\* What is put after it: nothing, one whitespace byte, or other bytes.
PadAfter == PadBefore \cup {<<50>>, <<32, 50>>, <<120>>, <<93>>}

\* The caller puts bytes around the document.
Pad ==
    /\ op = "bytes"
    /\ pieces < MaxPad
    /\ \E pre \in PadBefore, post \in PadAfter : bytes' = pre \o bytes \o post
    /\ pieces' = pieces + 1
    /\ UNCHANGED <<value, units, members, result, op>>

InitEntry ==
    /\ bytes \in Cores
    /\ value = Blank
    /\ units = <<>>
    /\ members = <<>>
    /\ result = NoResult
    /\ op = "bytes"
    /\ pieces = 0

NextEntry ==
    \/ Pad
    \/ ValueFromJsonCall
    \/ ArrayFromJsonCall
    \/ ObjectFromJsonCall
    \/ JsonStringFromJsonCall
    \/ NumberFromJsonCall

SpecEntry == InitEntry /\ [][NextEntry]_vars

\* The bytes without the whitespace they start with.
RECURSIVE TrimLeft(_)
TrimLeft(bs) == IF bs # <<>> /\ Head(bs) \in {9, 10, 13, 32} THEN TrimLeft(Tail(bs)) ELSE bs

\* The bytes without the whitespace they end with.
RECURSIVE TrimRight(_)
TrimRight(bs) ==
    IF bs # <<>> /\ bs[Len(bs)] \in {9, 10, 13, 32}
    THEN TrimRight(Take(bs, Len(bs) - 1)) ELSE bs

\* Whether byte x right after a document ending in byte last could go on a
\* number literal that the document ends with.
ContinuesNumber(last, x) ==
    /\ last >= 48 /\ last <= 57
    /\ (x >= 48 /\ x <= 57) \/ x \in {46, 101, 69}

\* C3: Value::from_json of a valid document with whitespace put before and
\* after it returns what it returns for the document alone; and when a valid
\* document is followed by a byte that is neither whitespace nor a byte that
\* goes on its number literal, the result is Err(TrailingData).
C3_WhitespaceAndTrailingData ==
    op = "Value::from_json" =>
        /\ LET alone == ValueFromJson(TrimRight(TrimLeft(bytes))) IN
           alone.kind = "Ok" => ResultEq(result, alone)
        /\ \A i \in 1..(Len(bytes) - 1) :
              ( /\ ValueFromJson(Take(bytes, i)).kind = "Ok"
                /\ bytes[i + 1] \notin {9, 10, 13, 32}
                /\ ~ContinuesNumber(bytes[i], bytes[i + 1]) )
              => (result.kind = "Err" /\ result.err = "TrailingData")

\* A tab, 1, a space and 2 have been refused with TrailingData.
C3_Witness ==
    /\ op = "Value::from_json"
    /\ bytes = <<9, 49, 32, 50>>
    /\ result.kind = "Err"
    /\ result.err = "TrailingData"

\* The case of Value an entry point returns.
ShapeOf(entry) ==
    CASE entry = "Array::from_json" -> "Array"
      [] entry = "Object::from_json" -> "Object"
      [] entry = "JsonString::from_json" -> "String"
      [] entry = "Number::from_json" -> "Number"
      [] OTHER -> "Any"

\* C4: on every input for which Value::from_json returns a value of the
\* shape of a shape-specific entry point, that entry point returns Ok with
\* the same value.
C4_EntryPointsAgree ==
    (op \in FromJsonOps \ {"Value::from_json"}) =>
        LET whole == ValueFromJson(bytes) IN
        (whole.kind = "Ok" /\ whole.val.t = ShapeOf(op)) => ResultEq(result, whole)

\* Where a value may start: at top level, as an element of an array, as the
\* value of a member of an object.
ValueContexts ==
    { [at |-> "top", pre |-> <<>>],
      [at |-> "array", pre |-> <<91>>],
      [at |-> "array", pre |-> <<91, 91>>],
      [at |-> "array", pre |-> <<91, 49, 44>>],
      [at |-> "object", pre |-> <<123, 34, 97, 34, 58>>] }

\* Whether bs is ctx.pre, an optional '-', a '0' and a digit, and then anything.
LeadingZeroIn(bs, ctx) ==
    LET n == Len(ctx.pre)
        s == IF Len(bs) > n /\ bs[n + 1] = 45 THEN n + 1 ELSE n
    IN /\ Len(bs) >= s + 2
       /\ Take(bs, n) = ctx.pre
       /\ bs[s + 1] = 48
       /\ bs[s + 2] >= 48 /\ bs[s + 2] <= 57

\* The digit after the leading zero.
DigitAfterZero(bs, ctx) ==
    LET n == Len(ctx.pre) IN IF bs[n + 1] = 45 THEN bs[n + 3] ELSE bs[n + 2]

\* C7 as stated: a literal with a leading zero followed by a digit b, at top
\* level or in a container, is refused with Err(InvalidDigit(b)).
C7_Original ==
    op = "Value::from_json" =>
        \A ctx \in ValueContexts :
            LeadingZeroIn(TrimLeft(bytes), ctx) =>
                /\ result.kind = "Err"
                /\ result.err = "InvalidDigit"
                /\ result.byte = DigitAfterZero(TrimLeft(bytes), ctx)

\* C7 amended: such a literal is refused by Value::from_json, with
\* Err(TrailingData) at top level, Err(ExpectedCommaOrRightBracket(b)) as an
\* element of an array, Err(ExpectedCommaOrRightBrace(b)) as the value of a
\* member of an object, b being the digit after the zero.
C7_LeadingZeroRefused ==
    op = "Value::from_json" =>
        \A ctx \in ValueContexts :
            LeadingZeroIn(TrimLeft(bytes), ctx) =>
                /\ result.kind = "Err"
                /\ ctx.at = "top" => result.err = "TrailingData" /\ result.byte = -1
                /\ ctx.at = "array" =>
                       /\ result.err = "ExpectedCommaOrRightBracket"
                       /\ result.byte = DigitAfterZero(TrimLeft(bytes), ctx)
                /\ ctx.at = "object" =>
                       /\ result.err = "ExpectedCommaOrRightBrace"
                       /\ result.byte = DigitAfterZero(TrimLeft(bytes), ctx)

\* [1,-01] has been refused at the digit after the zero.
C7_Witness ==
    /\ op = "Value::from_json"
    /\ bytes = <<91, 49, 44, 45, 48, 49, 93>>
    /\ result.kind = "Err"
    /\ result.err = "ExpectedCommaOrRightBracket"
    /\ result.byte = 49

(***************************************************************************)
(* SpecObject: object texts written member by member, given to             *)
(* Object::from_json and Value::from_json.                                 *)
(***************************************************************************)
\* The keys written, each with its code units: a, a as the hex escape of
\* U+0061, b, U+E000 as UTF-8, U+10000 as an escaped surrogate pair, and the
\* lone lead surrogate U+DBFF as a hex escape.
KeySpellings ==
    { [units |-> <<97>>, text |-> <<34, 97, 34>>],
      [units |-> <<97>>, text |-> <<34, 92, 117, 48, 48, 54, 49, 34>>],
      [units |-> <<98>>, text |-> <<34, 98, 34>>],
      [units |-> <<57344>>, text |-> <<34, 238, 128, 128, 34>>],
      [units |-> <<55296, 56320>>,
       text |-> <<34, 92, 117, 100, 56, 48, 48, 92, 117, 100, 99, 48, 48, 34>>],
      [units |-> <<56319>>, text |-> <<34, 92, 117, 100, 98, 102, 102, 34>>] }

\* The caller writes one more member, key : digit, into the object text.
AppendMember ==
    /\ op = "object_bytes"
    /\ Len(members) < MaxMembers
    /\ \E key \in KeySpellings, digit \in {1, 2} :
          /\ bytes' = bytes \o (IF members = <<>> THEN <<>> ELSE <<44>>)
                            \o key.text \o <<58, 48 + digit>>
          /\ members' = Append(members, [units |-> key.units, digit |-> digit])
    /\ UNCHANGED <<value, units, result, op, pieces>>

\* The caller closes the object text.
CloseObject ==
    /\ op = "object_bytes"
    /\ bytes' = bytes \o <<125>>
    /\ op' = "bytes"
    /\ UNCHANGED <<value, units, members, result, pieces>>

InitObject ==
    /\ bytes = <<123>>
    /\ value = Blank
    /\ units = <<>>
    /\ members = <<>>
    /\ result = NoResult
    /\ op = "object_bytes"
    /\ pieces = 0

NextObject ==
    \/ AppendMember
    \/ CloseObject
    \/ ObjectFromJsonCall
    \/ ValueFromJsonCall
    \/ ToStringOfResult

SpecObject == InitObject /\ [][NextObject]_vars

\* The number a digit 1 or 2 is read as.
DigitValue(d) == VNumber([neg |-> FALSE, mant |-> d, exp |-> 0, cls |-> "finite"])

\* C5: the object read from a text whose members repeat keys (equal as code
\* units, however written) holds each key once, with the value of the last
\* member that has it, and its length is the number of distinct keys.
C5_LastDuplicateWins ==
    op = "Object::from_json" =>
        /\ result.kind = "Ok"
        /\ result.val.t = "Object"
        /\ Len(result.val.o) = Cardinality({members[i].units : i \in 1..Len(members)})
        /\ \A i \in 1..Len(members) :
              (\A j \in (i + 1)..Len(members) : members[j].units # members[i].units)
              => /\ Cardinality({e \in 1..Len(result.val.o) :
                        to_ill_formed_utf16(result.val.o[e].k) = members[i].units}) = 1
                 /\ \A e \in 1..Len(result.val.o) :
                        to_ill_formed_utf16(result.val.o[e].k) = members[i].units
                        => result.val.o[e].v = DigitValue(members[i].digit)

\* The text {"a":1,<a as a hex escape>:2} has been read as an object of one
\* member, a -> 2.
C5_Witness ==
    /\ op = "Object::from_json"
    /\ bytes = <<123, 34, 97, 34, 58, 49, 44, 34, 92, 117, 48, 48, 54, 49, 34, 58, 50, 125>>
    /\ result.kind = "Ok"
    /\ Len(result.val.o) = 1
    /\ result.val.o[1].v = DigitValue(2)

\* C6: the members of an Object read by Object::from_json are iterated (and
\* so serialized) in ascending order of their keys compared as sequences of
\* 16-bit code units.
C6_CodeUnitOrder ==
    (op = "Object::from_json" /\ result.kind = "Ok") =>
        \A i, j \in 1..Len(result.val.o) :
            i < j => SeqCmp(to_ill_formed_utf16(result.val.o[i].k),
                            to_ill_formed_utf16(result.val.o[j].k)) < 0

(***************************************************************************)
(* SpecNumber: number literals given to Number::from_json, the Number read *)
(* kept and compared with the next one read.                               *)
(***************************************************************************)
NumberTokens == {<<48>>, <<49>>, <<45>>, <<46>>, <<101>>, <<101, 52, 48, 48>>}

\* The caller appends a byte, or the exponent e400, to a number literal.
AppendNumberToken ==
    /\ op = "number_bytes"
    /\ pieces < MaxNumTokens
    /\ \E tok \in NumberTokens : bytes' = bytes \o tok
    /\ pieces' = pieces + 1
    /\ UNCHANGED <<value, units, members, result, op>>

\* The caller keeps the Number read and starts another literal.
KeepNumber ==
    /\ op = "Number::from_json"
    /\ result.kind = "Ok"
    /\ value.t # "Number"
    /\ value' = result.val
    /\ bytes' = <<>>
    /\ pieces' = 0
    /\ result' = NoResult
    /\ op' = "number_bytes"
    /\ UNCHANGED <<units, members>>

\* The f64 a caller may hold: 1.5, -120.0, the two zeros, the infinities, NaN.
F64Inputs ==
    { [neg |-> FALSE, mant |-> 15, exp |-> -1, cls |-> "finite"],
      [neg |-> TRUE, mant |-> 12, exp |-> 1, cls |-> "finite"],
      [neg |-> FALSE, mant |-> 0, exp |-> 0, cls |-> "finite"],
      [neg |-> TRUE, mant |-> 0, exp |-> 0, cls |-> "finite"],
      [neg |-> FALSE, mant |-> 0, exp |-> 0, cls |-> "inf"],
      [neg |-> TRUE, mant |-> 0, exp |-> 0, cls |-> "inf"],
      [neg |-> FALSE, mant |-> 0, exp |-> 0, cls |-> "nan"] }

\* The f32 a caller may hold, mant * 2^exp: 0.0, -0.0, 0.75, -0.75, 24.0,
\* -24.0, 1.0, -1.0, the infinities, NaN.
F32Inputs ==
    { [neg |-> n, mant |-> m[1], exp |-> m[2], cls |-> "finite"] :
          n \in BOOLEAN, m \in {<<0, 0>>, <<3, -2>>, <<3, 3>>, <<1, 0>>} }
    \cup { [neg |-> n, mant |-> 0, exp |-> 0, cls |-> c] :
          n \in BOOLEAN, c \in {"inf", "nan"} }

\* The caller takes an f64 or an f32 in hand.
PickFloat ==
    /\ op = "number_bytes"
    /\ bytes = <<>>
    /\ value = Blank
    /\ \/ \E x \in F64Inputs : value' = [Blank EXCEPT !.t = "f64", !.n = x]
       \/ \E x \in F32Inputs : value' = [Blank EXCEPT !.t = "f32", !.n = x]
    /\ op' = "float"
    /\ UNCHANGED <<bytes, units, members, result, pieces>>

\* Number::try_from(x) of the f64 held.
NumberTryFromF64Call ==
    /\ op = "float"
    /\ value.t = "f64"
    /\ result' = NumberTryFromF64(value.n)
    /\ op' = "Number::try_from(f64)"
    /\ UNCHANGED <<bytes, value, units, members, pieces>>

\* Number::try_from(x) of the f32 held.
NumberTryFromF32Call ==
    /\ op = "float"
    /\ value.t = "f32"
    /\ result' = NumberTryFromF32(value.n)
    /\ op' = "Number::try_from(f32)"
    /\ UNCHANGED <<bytes, value, units, members, pieces>>

\* Value::try_from(x) of the f64 held.
ValueTryFromF64Call ==
    /\ op = "float"
    /\ value.t = "f64"
    /\ result' = ValueTryFromF64(value.n)
    /\ op' = "Value::try_from(f64)"
    /\ UNCHANGED <<bytes, value, units, members, pieces>>

InitNumber ==
    /\ bytes = <<>>
    /\ value = Blank
    /\ units = <<>>
    /\ members = <<>>
    /\ result = NoResult
    /\ op = "number_bytes"
    /\ pieces = 0

NextNumber ==
    \/ AppendNumberToken
    \/ NumberFromJsonCall
    \/ KeepNumber
    \/ PickFloat
    \/ NumberTryFromF64Call
    \/ NumberTryFromF32Call
    \/ ValueTryFromF64Call

SpecNumber == InitNumber /\ [][NextNumber]_vars

\* The constructors of a Number from a float.
TryFromOps == {"Number::try_from(f64)", "Number::try_from(f32)", "Value::try_from(f64)"}

\* C12: every Number a call returns or the caller keeps holds a finite double;
\* a literal of the number grammar whose value rounds to an infinity is
\* refused with Err(InfiniteFloat), and try_from of a NaN or an infinity
\* returns Err and no Number, while try_from of a finite float returns Ok.
C12_NumbersAreFinite ==
    /\ (result.kind = "Ok" /\ result.val.t = "Number") => result.val.n.cls = "finite"
    /\ value.t = "Number" => value.n.cls = "finite"
    /\ ( /\ op = "Number::from_json"
         /\ skip_number(bytes).kind = "Ok"
         /\ skip_number(bytes).rest = <<>>
         /\ F64FromStr(bytes).kind = "Ok"
         /\ F64FromStr(bytes).val.n.cls = "inf" )
       => (result.kind = "Err" /\ result.err = "InfiniteFloat" /\ result.val = Blank)
    /\ op \in TryFromOps =>
          IF value.n.cls = "finite"
          THEN result.kind = "Ok" /\ result.val.t = "Number"
          ELSE result.kind = "Err" /\ result.val = Blank

\* The literal 1e400 has been refused with InfiniteFloat.
C12_Witness ==
    /\ op = "Number::from_json"
    /\ bytes = <<49, 101, 52, 48, 48>>
    /\ result.kind = "Err"
    /\ result.err = "InfiniteFloat"

\* C8: for the Number kept and the Number just read, equality holds exactly when
\* the bit patterns are equal, cmp is Equal exactly when equality holds and is
\* antisymmetric, and == implies equal hashes.
C8_BitPatternIdentity ==
    (op = "Number::from_json" /\ result.kind = "Ok" /\ value.t = "Number") =>
        LET x == value.n
            y == result.val.n
        IN /\ NumberEq(x, y) <=> to_bits(x) = to_bits(y)
           /\ NumberCmp(x, y) = 0 <=> NumberEq(x, y)
           /\ NumberCmp(x, y) = 0 - NumberCmp(y, x)
           /\ NumberEq(x, y) => NumberHash(x) = NumberHash(y)

(***************************************************************************)
(* Separators of arrays and objects, over the documents of Spec.           *)
(***************************************************************************)
\* Whether bs has a comma that is followed, after whitespace only, by a
\* closing bracket or brace.
TrailingComma(bs) ==
    \E i \in 1..Len(bs) : \E j \in (i + 1)..Len(bs) :
        /\ bs[i] = 44
        /\ bs[j] \in {93, 125}
        /\ \A m \in (i + 1)..(j - 1) : IsWhitespace(bs[m])

\* Whether an element of the array text bs starts at index k: right after the
\* opening bracket, or after an earlier element and its comma.
RECURSIVE ElementAt(_, _)
ElementAt(bs, k) ==
    \/ k = 2
    \/ \E k0 \in 2..(k - 2) :
          /\ bs[k - 1] = 44
          /\ ValueFromJson(SubSeq(bs, k0, k - 2)).kind = "Ok"
          /\ ElementAt(bs, k0)

\* The openings of an object text up to the colon of its first member.
MemberOpenings == { <<123, 34, 34, 58>>, <<123, 34, 97, 34, 58>> }

\* Whether b can follow an element: a separator, a closing delimiter for
\* close, whitespace, or a byte that goes on the number the element ends with.
FollowsElement(last, b, close) ==
    \/ b \in {44, close}
    \/ IsWhitespace(b)
    \/ ContinuesNumber(last, b)

\* C14: a document with a comma followed, after whitespace, by ']' or '}' is
\* refused; an array text in which an element is followed by a byte b that is
\* neither ',' nor ']' is refused with ExpectedCommaOrRightBracket(b); and an
\* object text in which a member's value is followed by a byte that is
\* neither ',' nor '}' is refused.
C14_SeparatorsRequired ==
    op = "Value::from_json" =>
        /\ TrailingComma(bytes) => result.kind = "Err"
        /\ (bytes # <<>> /\ bytes[1] = 91) =>
              \A k \in 2..Len(bytes) : \A i \in k..(Len(bytes) - 1) :
                  ( /\ ElementAt(bytes, k)
                    /\ ValueFromJson(SubSeq(bytes, k, i)).kind = "Ok"
                    /\ ~FollowsElement(bytes[i], bytes[i + 1], 93) )
                  => /\ result.kind = "Err"
                     /\ result.err = "ExpectedCommaOrRightBracket"
                     /\ result.byte = bytes[i + 1]
        /\ \A open \in MemberOpenings :
              (Len(bytes) > Len(open) /\ Take(bytes, Len(open)) = open) =>
                  \A i \in (Len(open) + 1)..(Len(bytes) - 1) :
                      ( /\ ValueFromJson(SubSeq(bytes, Len(open) + 1, i)).kind = "Ok"
                        /\ ~FollowsElement(bytes[i], bytes[i + 1], 125) )
                      => result.kind = "Err"

\* The text [1,] has been refused at its closing bracket.
C14_Witness ==
    /\ op = "Value::from_json"
    /\ bytes = <<91, 49, 44, 93>>
    /\ result.kind = "Err"
    /\ result.err = "UnexpectedStartOfValue"
    /\ result.byte = 93

\* The text {"a":1,} has been refused at its closing brace.
C14_ObjectRefused ==
    /\ op = "Value::from_json"
    /\ bytes = <<123, 34, 97, 34, 58, 49, 44, 125>>
    /\ result.kind = "Err"
    /\ result.err = "ExpectedDoubleQuote"
    /\ result.byte = 125

\* The text [1 x has been refused at the stray byte.
C14_WrongSeparator ==
    /\ op = "Value::from_json"
    /\ bytes = <<91, 49, 32, 120>>
    /\ result.kind = "Err"
    /\ result.err = "ExpectedCommaOrRightBracket"
    /\ result.byte = 120

(***************************************************************************)
(* Number literals cut short, over the documents of Spec.                  *)
(***************************************************************************)
\* The byte of bs at index i, or -1 past the end.
ByteAt(bs, i) == IF i >= 1 /\ i <= Len(bs) THEN bs[i] ELSE -1

\* The first index from i on at which bs has no digit.
RECURSIVE DigitsEnd(_, _)
DigitsEnd(bs, i) ==
    IF ByteAt(bs, i) >= 48 /\ ByteAt(bs, i) <= 57 THEN DigitsEnd(bs, i + 1) ELSE i

\* With the integer and fraction parts of a literal ending before index i:
\* the index at which a digit of the exponent is missing, or 0.
MissingExponentDigit(bs, i) ==
    IF ByteAt(bs, i) \in {101, 69}
    THEN LET g == IF ByteAt(bs, i + 1) \in {43, 45} THEN i + 2 ELSE i + 1
         IN IF DigitsEnd(bs, g) = g THEN g ELSE 0
    ELSE 0

\* With the integer part of a literal ending before index i: the index at
\* which a digit of the fraction or of the exponent is missing, or 0.
MissingFractionDigit(bs, i) ==
    IF i = 0 THEN 0
    ELSE IF ByteAt(bs, i) = 46
         THEN (IF DigitsEnd(bs, i + 1) = i + 1 THEN i + 1
               ELSE MissingExponentDigit(bs, DigitsEnd(bs, i + 1)))
    ELSE MissingExponentDigit(bs, i)

\* For a number literal that starts after the first n bytes of bs: the index
\* at which a digit is missing after its '.', its exponent mark or the sign
\* of its exponent; 0 when there is no such literal there.
MissingDigitAt(bs, n) ==
    LET s == IF ByteAt(bs, n + 1) = 45 THEN n + 2 ELSE n + 1
    IN MissingFractionDigit(bs,
           IF ByteAt(bs, s) = 48 THEN s + 1
           ELSE IF ByteAt(bs, s) >= 49 /\ ByteAt(bs, s) <= 57 THEN DigitsEnd(bs, s)
           ELSE 0)

\* Whether bs begins with the bytes pre.
StartsWith(bs, pre) == Len(bs) >= Len(pre) /\ Take(bs, Len(pre)) = pre

\* C15 as stated: a number literal whose '.', exponent mark or exponent sign
\* is not followed by a digit is refused with Err(InvalidDigit(_)) in every
\* context, also when the input ends there.
C15_Original ==
    op = "Value::from_json" =>
        \A ctx \in ValueContexts :
            ( /\ StartsWith(TrimLeft(bytes), ctx.pre)
              /\ MissingDigitAt(TrimLeft(bytes), Len(ctx.pre)) # 0 )
            => result.kind = "Err" /\ result.err = "InvalidDigit"

\* C15 amended: such a literal is refused in every context, with
\* Err(InvalidDigit(b)) when a byte b that is not a digit stands where the
\* digit is missing, and with Err(UnexpectedEof) when the input ends there.
C15_MissingDigitRefused ==
    op = "Value::from_json" =>
        \A ctx \in ValueContexts :
            ( /\ StartsWith(TrimLeft(bytes), ctx.pre)
              /\ MissingDigitAt(TrimLeft(bytes), Len(ctx.pre)) # 0 )
            => /\ result.kind = "Err"
               /\ result.val = Blank
               /\ IF MissingDigitAt(TrimLeft(bytes), Len(ctx.pre)) > Len(TrimLeft(bytes))
                  THEN result.err = "UnexpectedEof" /\ result.byte = -1
                  ELSE /\ result.err = "InvalidDigit"
                       /\ result.byte =
                              TrimLeft(bytes)[MissingDigitAt(TrimLeft(bytes), Len(ctx.pre))]

\* The text [1e- has been refused at its end.
C15_Witness ==
    /\ op = "Value::from_json"
    /\ bytes = <<91, 49, 101, 45>>
    /\ result.kind = "Err"
    /\ result.err = "UnexpectedEof"

\* The text [1.] has been refused at the bracket after the point.
C15_InvalidDigitReached ==
    /\ op = "Value::from_json"
    /\ bytes = <<91, 49, 46, 93>>
    /\ result.kind = "Err"
    /\ result.err = "InvalidDigit"
    /\ result.byte = 93

(***************************************************************************)
(* Progress of the Reader, over the documents of Spec.                     *)
(***************************************************************************)
\* The states of the Reader over bs: what is left after each number of bytes.
Suffixes(bs) == { Drop(bs, k) : k \in 0..Len(bs) }

\* Whether the Reader rest is the Reader s moved on by least bytes or more.
MovedOn(s, rest, least) ==
    /\ Len(rest) + least <= Len(s)
    /\ rest = Drop(s, Len(s) - Len(rest))

\* Whether a call that started with the Reader s and gave res has, when it
\* gave Ok, moved the Reader on by least bytes or more.
Advances(s, res, least) == res.kind = "Ok" => MovedOn(s, res.rest, least)

\* The bytes of bs that open a container.
RECURSIVE Openers(_)
Openers(bs) ==
    IF bs = <<>> THEN 0
    ELSE (IF Head(bs) \in {91, 123} THEN 1 ELSE 0) + Openers(Tail(bs))

\* C16: from every position of the input the Reader only moves forward:
\* skip_whitespace and skip_digits leave a suffix, and read_char, read_string,
\* read_number, read_array, read_object and read_value, when they give Ok,
\* have consumed at least one byte (two for a string or a container), so
\* every iteration of a loop and every nested read_value shortens what is
\* left; the value read has no more nodes than the input has bytes, and the
\* calls of read_value nest no deeper than the input has opening brackets
\* and braces.
C16_ReaderMovesForward ==
    op = "Value::from_json" =>
        /\ \A s \in Suffixes(bytes) :
              /\ MovedOn(s, skip_whitespace(s), 0)
              /\ MovedOn(s, skip_digits(s), 0)
              /\ Advances(s, read_char(s), 1)
              /\ Advances(s, read_string(s), 2)
              /\ Advances(s, read_number(s), 1)
              /\ Advances(s, read_array(s, 0), 2)
              /\ Advances(s, read_object(s, 0), 2)
              /\ Advances(s, read_value(s, 0), 1)
        /\ result.kind = "Ok" => Nodes(result.val) <= Len(bytes)
        /\ Openers(bytes) < StackFrames =>
              read_value(bytes, StackFrames - 1 - Openers(bytes)).kind # "Abort"

\* The text {"a":1 } has been read: the loops of read_object, read_string,
\* skip_digits and skip_whitespace have run, and read_value within read_value.
C16_Witness ==
    /\ op = "Value::from_json"
    /\ bytes = <<123, 34, 97, 34, 58, 49, 32, 125>>
    /\ result.kind = "Ok"
    /\ Nodes(result.val) = 2

(***************************************************************************)
(* SpecChar: a Reader over a buffer of arbitrary bytes, from which          *)
(* read_char is called again and again.                                    *)
(***************************************************************************)
\* Bytes of a buffer: ASCII 'A'; continuation bytes 80, 98, 9F, A0; the lead
\* bytes C3, E2, ED (surrogates follow ED A0) and F0 (overlong forms follow
\* F0 80); FF, which no UTF-8 text holds.
ByteAlphabet == {65, 128, 152, 159, 160, 195, 226, 237, 240, 255}

\* The caller puts one more byte into the buffer before the Reader is made.
AppendByte ==
    /\ op = "char_bytes"
    /\ Len(bytes) < MaxBytes
    /\ \E b \in ByteAlphabet : bytes' = Append(bytes, b)
    /\ UNCHANGED <<value, units, members, result, op, pieces>>

\* reader.read_char(): bytes is self.bytes of the Reader, which only the Ok
\* path assigns to.
ReadCharCall ==
    /\ op \in {"char_bytes", "read_char"}
    /\ result.kind \in {"None", "Ok"}
    /\ result' = read_char(bytes)
    /\ bytes' = IF read_char(bytes).kind = "Ok" THEN read_char(bytes).rest ELSE bytes
    /\ op' = "read_char"
    /\ UNCHANGED <<value, units, members, pieces>>

InitChar ==
    /\ bytes = <<>>
    /\ op = "char_bytes"
    /\ value = Blank
    /\ units = <<>>
    /\ members = <<>>
    /\ result = NoResult
    /\ pieces = 0

NextChar == AppendByte \/ ReadCharCall

SpecChar == InitChar /\ [][NextChar]_vars

\* The lengths 1..=min(4, remaining) of the prefixes of bs that are UTF-8.
ValidPrefixes(bs) == { n \in 1..Min(4, Len(bs)) : IsUtf8(Take(bs, n)) }

\* The least member of a set of numbers that is not empty.
Least(S) == CHOOSE n \in S : \A m \in S : n <= m

\* Whether c is a Unicode scalar value.
IsScalar(c) == c >= 0 /\ c <= 1114111 /\ ~(c >= 55296 /\ c <= 57343)

\* C17: a call of read_char with the Reader empty gives Err(UnexpectedEof);
\* with a prefix of 1 to 4 bytes that is UTF-8 it gives Ok of one scalar
\* value, which the shortest such prefix encodes, and moves the Reader on by
\* the length of that prefix; with no such prefix it gives
\* Err(InvalidUtf8Char); an Err leaves the Reader where it was, and no
\* assertion fails.
C17_ReadCharShortestPrefix ==
    [][ReadCharCall =>
          /\ result'.kind \in {"Ok", "Err"}
          /\ bytes = <<>> =>
                /\ result'.kind = "Err" /\ result'.err = "UnexpectedEof"
                /\ bytes' = bytes
          /\ (bytes # <<>> /\ ValidPrefixes(bytes) = {}) =>
                /\ result'.kind = "Err" /\ result'.err = "InvalidUtf8Char"
                /\ bytes' = bytes
          /\ ValidPrefixes(bytes) # {} =>
                /\ Len(Utf8Chars(Take(bytes, Least(ValidPrefixes(bytes))))) = 1
                /\ result'.kind = "Ok"
                /\ Len(result'.val.s) = 1
                /\ IsScalar(result'.val.s[1])
                /\ EncodeCodePoint(result'.val.s[1])
                       = Take(bytes, Least(ValidPrefixes(bytes)))
                /\ bytes' = Drop(bytes, Least(ValidPrefixes(bytes)))
    ]_vars

\* U+1F600 has been read from the four bytes of the buffer, and none is left.
C17_Witness ==
    /\ op = "read_char"
    /\ result.kind = "Ok"
    /\ result.val.s = <<128512>>
    /\ bytes = <<>>

\* A call has been refused with InvalidUtf8Char at the bytes ED A0 80, the
\* three-byte form of a surrogate, and the Reader still holds them.
C17_Refused ==
    /\ op = "read_char"
    /\ result.kind = "Err"
    /\ result.err = "InvalidUtf8Char"
    /\ bytes = <<237, 160, 128>>

====
